---- MODULE Spec2Model ----
(***************************************************************************)
(* Model of import_aws_to_localstack.py: the per-kind migrators            *)
(* (clone_s3_buckets, clone_sqs_queues, clone_lambda_functions,            *)
(* clone_cognito_user_pools, clone_rds_instances, clone_dynamodb_tables),  *)
(* their helpers (ensure_bucket_exists, stub_trigger_lambdas) and the      *)
(* orchestrator main.  One migrator runs per behaviour (variable kind);    *)
(* the source account and the LocalStack target are the environment, and   *)
(* every call to them may fail while the fault budget lasts.               *)
(***************************************************************************)
EXTENDS Integers, Sequences, FiniteSets, TLC

(* ------------------------------------------------------------------ *)
(* Bounds of the model                                                 *)
(* ------------------------------------------------------------------ *)
\* longest source listing a migrator iterates over
MaxList == 2
\* failures the environment injects in one behaviour
MaxFaults == 1

(* ------------------------------------------------------------------ *)
(* Strings are sequences of one-character strings                      *)
(* ------------------------------------------------------------------ *)
\* Python's `sub in s` on strings
Contains(sub, s) ==
    \E i \in 1..(Len(s) - Len(sub) + 1) : SubSeq(s, i, i + Len(sub) - 1) = sub

\* names the source listings are drawn from, and the filters tried on them
NameSet == { <<"a","b">>, <<"A","b">>, <<"b">> }
FilterSet == { <<>>, << <<>> >>, << <<"b">> >>, << <<"a","b">> >>, << <<"a">> >> }

\* sequences over S without repetition, of length at most n
SeqsUpTo(S, n) ==
    UNION { { s \in [1..m -> S] : \A i, j \in 1..m : i # j => s[i] # s[j] }
            : m \in 0..n }

VARIABLES
    kind,          \* the migrator this behaviour runs
    filter_name,   \* <<>> is None, <<f>> is the string f
    listing,       \* the source account's instances, in list order
    idx,           \* position of the for loop in listing (0: not entered)
    pc,            \* position in the running function
    loc,           \* locals of the current loop iteration
    target,        \* resources held by the LocalStack target
    tmp,           \* files that exist under /tmp
    calls,         \* every call made to the source or the target, in order
    reports,       \* every message printed or logged, in order
    faults,        \* failures injected so far
    config,        \* the settings read from the process environment
    run            \* 1 for the first run, 2 for a re-run on the same target

vars == << kind, filter_name, listing, idx, pc, loc, target, tmp, calls,
           reports, faults, config, run >>

NoLoc == [ none |-> TRUE ]
EmptyTarget ==
    [ buckets |-> {}, queues |-> {}, functions |-> {}, tables |-> {},
      pools |-> {}, dbs |-> {}, objects |-> {}, clients |-> {},
      users |-> {} ]

\* a call made without the endpoint of the target: it goes to the source
Call_default_endpoint(env, op, id, data) ==
    [ env |-> "source", op |-> op, id |-> id, data |-> data, ok |-> TRUE ]

\* data is what the call sends (a create request, a batch of items) or, for a
\* read of the source, what it returns
Call(env, op, id, data) ==
    [ env |-> env, op |-> op, id |-> id, data |-> data, ok |-> TRUE ]
Report(id, status) == [ id |-> id, status |-> status ]

CanFault == faults < MaxFaults

\* a Python dict: a function whose domain is the keys present
EmptyDict == [ k \in {} |-> 0 ]
Merge(f, g) ==
    [ k \in DOMAIN f \cup DOMAIN g |-> IF k \in DOMAIN g THEN g[k] ELSE f[k] ]
Has(d, k) == k \in DOMAIN d

Get(u, f, default) == IF f \in DOMAIN u THEN u[f] ELSE default

\* calls and messages carry the number of the run that made them
InRun(records) ==
    [ i \in DOMAIN records |-> Merge(records[i], [ run |-> run ]) ]

\* the last of the calls of a step is the one that fails, when one does
MarkLast(cs, failed) ==
    IF failed /\ cs # <<>> THEN [ cs EXCEPT ![Len(cs)].ok = FALSE ] ELSE cs

\* one step of the running function: the fields of u are the assignments it
\* makes, the calls and messages it adds, whether the environment failed its
\* last call (fault) and whether the target refused it (refused)
Step(u) ==
    /\ Get(u, "fault", FALSE) => CanFault
    /\ pc' = Get(u, "pc", pc)
    /\ idx' = Get(u, "idx", idx)
    /\ loc' = Get(u, "loc", loc)
    /\ target' = Get(u, "target", target)
    /\ tmp' = Get(u, "tmp", tmp)
    /\ calls' = calls \o InRun(MarkLast(Get(u, "calls", <<>>),
                                         Get(u, "fault", FALSE)
                                         \/ Get(u, "refused", FALSE)))
    /\ reports' = reports \o InRun(Get(u, "reports", <<>>))
    /\ faults' = IF Get(u, "fault", FALSE) THEN faults + 1 ELSE faults
    /\ UNCHANGED << kind, filter_name, listing, config, run >>

(* ------------------------------------------------------------------ *)
(* Name filter, as every migrator writes it:                           *)
(*   if filter_name and filter_name not in name: continue              *)
(* ------------------------------------------------------------------ *)
\* the filter written with str.startswith instead of `in`
SkippedByFilter_startswith(name) ==
    /\ filter_name # <<>>
    /\ filter_name[1] # <<>>
    /\ SubSeq(name, 1, Len(filter_name[1])) # filter_name[1]

SkippedByFilter(name) ==
    /\ filter_name # <<>>
    /\ filter_name[1] # <<>>
    /\ ~ Contains(filter_name[1], name)


(* ------------------------------------------------------------------ *)
(* clone_s3_buckets                                                    *)
(* ------------------------------------------------------------------ *)
clone_s3_buckets_list ==
    /\ kind = "s3" /\ pc = "start"
    /\ \E ok \in BOOLEAN :
         Step([ pc |-> IF ok THEN "loop" ELSE "done",
                fault |-> ~ ok,
                calls |-> << Call("source", "list-buckets", <<>>, <<>>) >>,
                reports |-> IF ok THEN <<>>
                            ELSE << Report(<<>>, "list-failed") >> ])

clone_s3_buckets_for ==
    /\ kind = "s3" /\ pc = "loop"
    /\ IF idx = Len(listing)
       THEN Step([ pc |-> "done" ])
       ELSE LET bucket_name == listing[idx + 1].Name
            IN  Step([ idx |-> idx + 1,
                       pc |-> IF SkippedByFilter(bucket_name)
                              THEN "loop" ELSE "create" ])

\* aws s3api create-bucket on the target: a bucket the caller already owns is
\* answered with success or with BucketAlreadyOwnedByYou, depending on region
CreateBucketAnswers(name) ==
    IF name \in target.buckets THEN { "ok", "exists-error" }
    ELSE { "ok", "error" }

clone_s3_buckets_create ==
    /\ kind = "s3" /\ pc = "create"
    /\ LET bucket_name == listing[idx].Name
       IN  \E r \in CreateBucketAnswers(bucket_name) :
             Step([ pc |-> "loop",
                    fault |-> r = "error",
                    refused |-> r = "exists-error",
                    calls |-> << Call("target", "create-bucket",
                                      bucket_name, <<>>) >>,
                    target |-> IF r = "ok"
                               THEN [ target EXCEPT
                                        !.buckets = @ \cup { bucket_name } ]
                               ELSE target,
                    reports |-> IF r = "ok" THEN <<>>
                                ELSE << Report(bucket_name, "failed") >> ])

clone_s3_buckets ==
    \/ clone_s3_buckets_list
    \/ clone_s3_buckets_for
    \/ clone_s3_buckets_create

(* ------------------------------------------------------------------ *)
(* clone_sqs_queues                                                    *)
(* ------------------------------------------------------------------ *)
\* queue_url.split("/")[-1]
RECURSIVE LastSegment(_)
LastSegment(url) ==
    IF url = <<>> THEN <<>>
    ELSE IF url[Len(url)] = "/" THEN <<>>
    ELSE Append(LastSegment(SubSeq(url, 1, Len(url) - 1)), url[Len(url)])

QueueUrl(name) == << "h", "/", "1", "/" >> \o name

clone_sqs_queues_list ==
    /\ kind = "sqs" /\ pc = "start"
    /\ \E ok \in BOOLEAN :
         Step([ pc |-> IF ok THEN "loop" ELSE "done",
                fault |-> ~ ok,
                calls |-> << Call("source", "list-queues", <<>>, <<>>) >>,
                reports |-> IF ok THEN <<>>
                            ELSE << Report(<<>>, "list-failed") >> ])

clone_sqs_queues_for ==
    /\ kind = "sqs" /\ pc = "loop"
    /\ IF idx = Len(listing)
       THEN Step([ pc |-> "done" ])
       ELSE LET queue_name == LastSegment(listing[idx + 1].QueueUrl)
            IN  Step([ idx |-> idx + 1,
                       pc |-> IF SkippedByFilter(queue_name)
                              THEN "loop" ELSE "create" ])

\* aws sqs create-queue on the target: creating a queue that exists with the
\* same attributes returns the existing queue's URL
clone_sqs_queues_create ==
    /\ kind = "sqs" /\ pc = "create"
    /\ LET queue_name == LastSegment(listing[idx].QueueUrl)
       IN  \E ok \in BOOLEAN :
             Step([ pc |-> "loop",
                    fault |-> ~ ok,
                    calls |-> << Call("target", "create-queue",
                                      queue_name, <<>>) >>,
                    target |-> IF ok
                               THEN [ target EXCEPT
                                        !.queues = @ \cup { queue_name } ]
                               ELSE target,
                    reports |-> IF ok THEN <<>>
                                ELSE << Report(queue_name, "failed") >> ])

clone_sqs_queues ==
    \/ clone_sqs_queues_list
    \/ clone_sqs_queues_for
    \/ clone_sqs_queues_create

(* ------------------------------------------------------------------ *)
(* ensure_bucket_exists and clone_lambda_functions                     *)
(* ------------------------------------------------------------------ *)
LOCALSTACK_S3_BUCKET == << "l", "s" >>
LambdaRole == "arn:aws:iam::000000000000:role/lambda-role"

\* the guard creating the bucket whatever error head_bucket ends with
ensure_bucket_exists_any_error ==
    /\ kind = "lambda" /\ pc = "start"
    /\ LET head == Call("target", "head_bucket", LOCALSTACK_S3_BUCKET,
                        IF LOCALSTACK_S3_BUCKET \in target.buckets
                        THEN "200" ELSE "404")
           create == Call("target", "create_bucket", LOCALSTACK_S3_BUCKET,
                          <<>>)
       IN  \E r \in { "answer", "head-error" } :
             IF r = "head-error"
             THEN Step([ pc |-> "list",
                         calls |-> << [ head EXCEPT !.ok = FALSE ], create >>,
                         target |-> [ target EXCEPT !.buckets =
                                        @ \cup { LOCALSTACK_S3_BUCKET } ] ])
             ELSE IF LOCALSTACK_S3_BUCKET \in target.buckets
             THEN Step([ pc |-> "list", calls |-> << head >> ])
             ELSE Step([ pc |-> "list", calls |-> << head, create >>,
                         target |-> [ target EXCEPT !.buckets =
                                        @ \cup { LOCALSTACK_S3_BUCKET } ] ])

\* head_bucket, and create_bucket when the answer is 404; any other error, and
\* an error of create_bucket, leaves the function as an exception
ensure_bucket_exists ==
    /\ kind = "lambda" /\ pc = "start"
    /\ LET head == Call("target", "head_bucket", LOCALSTACK_S3_BUCKET,
                        IF LOCALSTACK_S3_BUCKET \in target.buckets
                        THEN "200" ELSE "404")
           create == Call("target", "create_bucket", LOCALSTACK_S3_BUCKET,
                          <<>>)
       IN  \E r \in { "answer", "head-error", "create-error" } :
             IF r = "head-error"
             THEN Step([ pc |-> "raised", fault |-> TRUE,
                         calls |-> << head >> ])
             ELSE IF LOCALSTACK_S3_BUCKET \in target.buckets
             THEN r = "answer"
                  /\ Step([ pc |-> "list", calls |-> << head >>,
                            reports |-> << Report(LOCALSTACK_S3_BUCKET,
                                                  "already-exists") >> ])
             ELSE IF r = "create-error"
             THEN Step([ pc |-> "raised", fault |-> TRUE,
                         calls |-> << head, create >> ])
             ELSE Step([ pc |-> "list", calls |-> << head, create >>,
                         target |-> [ target EXCEPT !.buckets =
                                        @ \cup { LOCALSTACK_S3_BUCKET } ] ])

clone_lambda_functions_list ==
    /\ kind = "lambda" /\ pc = "list"
    /\ \E ok \in BOOLEAN :
         Step([ pc |-> IF ok THEN "loop" ELSE "done",
                fault |-> ~ ok,
                calls |-> << Call("source", "list-functions", <<>>, <<>>) >>,
                reports |-> IF ok THEN <<>>
                            ELSE << Report(<<>>, "list-failed") >> ])

clone_lambda_functions_for ==
    /\ kind = "lambda" /\ pc = "loop"
    /\ IF idx = Len(listing)
       THEN Step([ pc |-> "done" ])
       ELSE LET function == listing[idx + 1].Function
            IN  IF ~ Has(function, "FunctionName")
                THEN Step([ idx |-> idx + 1,
                            reports |-> << Report(<<>>, "no-name") >> ])
                ELSE Step([ idx |-> idx + 1,
                            loc |-> [ local_code_path |-> <<>> ],
                            pc |-> IF SkippedByFilter(function.FunctionName)
                                   THEN "loop" ELSE "get_function" ])

s3_key(function_name) == function_name \o << ".", "z", "i", "p" >>
local_code_path(function_name) ==
    << "/", "t", "m", "p", "/" >> \o function_name \o << ".", "z", "i", "p" >>

\* function["Runtime"], function["Handler"], details["Code"]["Location"]
get_function_KeyError(function, details) ==
    \/ ~ Has(function, "Runtime")
    \/ ~ Has(function, "Handler")
    \/ ~ Has(details, "Code")
    \/ ~ Has(details.Code, "Location")

\* get_function on the source; a ClientError and a KeyError are caught by the
\* handlers of lines 170-175, any other exception leaves the function
clone_lambda_functions_get_function ==
    /\ kind = "lambda" /\ pc = "get_function"
    /\ LET function == listing[idx].Function
           function_name == function.FunctionName
           got == Call("source", "get_function", function_name, <<>>)
       IN  \E r \in { "ok", "ClientError", "other-error" } :
             CASE r = "ClientError" ->
                    Step([ pc |-> "loop", fault |-> TRUE, calls |-> << got >>,
                           reports |-> << Report(function_name, "failed") >> ])
               [] r = "other-error" ->
                    Step([ pc |-> "raised", fault |-> TRUE,
                           calls |-> << got >> ])
               [] OTHER ->
                    IF get_function_KeyError(function, listing[idx].Details)
                    THEN Step([ pc |-> "loop", calls |-> << got >>,
                                reports |-> << Report(function_name,
                                                      "failed") >> ])
                    ELSE Step([ pc |-> "download", calls |-> << got >> ])

\* the download without the check of response.status_code
clone_lambda_functions_download_unchecked ==
    /\ kind = "lambda" /\ pc = "download"
    /\ LET function_name == listing[idx].Function.FunctionName
           path == local_code_path(function_name)
       IN  \E r \in { "200", "other-status" } :
             Step([ pc |-> "upload", fault |-> r # "200",
                    calls |-> << Call("source", "download", function_name,
                                      r) >>,
                    loc |-> [ local_code_path |-> << path >> ],
                    tmp |-> tmp \cup { path } ])

\* requests.get(code_url), then the payload is written to local_code_path
clone_lambda_functions_download ==
    /\ kind = "lambda" /\ pc = "download"
    /\ LET function_name == listing[idx].Function.FunctionName
           path == local_code_path(function_name)
       IN  \E r \in { "200", "other-status", "raises" } :
             CASE r = "200" ->
                    Step([ pc |-> "upload",
                           calls |-> << Call("source", "download",
                                             function_name, "200") >>,
                           loc |-> [ local_code_path |-> << path >> ],
                           tmp |-> tmp \cup { path } ])
               [] r = "other-status" ->
                    Step([ pc |-> "loop", fault |-> TRUE,
                           calls |-> << Call("source", "download",
                                             function_name, "other-status") >>,
                           reports |-> << Report(function_name, "failed") >> ])
               [] OTHER ->
                    Step([ pc |-> "raised", fault |-> TRUE,
                           calls |-> << Call("source", "download",
                                             function_name, "raises") >> ])

\* the function left without the removal of its code file
remove_local_code_never == tmp

\* finally: if local_code_path and os.path.exists(...): os.remove(...)
remove_local_code ==
    IF loc.local_code_path # <<>> THEN tmp \ { loc.local_code_path[1] }
    ELSE tmp

\* upload_file to the target bucket; its failure is an S3UploadFailedError,
\* which no handler of the loop catches
clone_lambda_functions_upload ==
    /\ kind = "lambda" /\ pc = "upload"
    /\ LET function_name == listing[idx].Function.FunctionName
           object == [ Bucket |-> LOCALSTACK_S3_BUCKET,
                       Key |-> s3_key(function_name) ]
           uploaded == Call("target", "upload_file", function_name, object)
       IN  \E ok \in BOOLEAN :
             IF ok
             THEN Step([ pc |-> "create_function", calls |-> << uploaded >>,
                         target |-> [ target EXCEPT
                                        !.objects = @ \cup { object } ] ])
             ELSE Step([ pc |-> "raised", fault |-> TRUE,
                         calls |-> << uploaded >>,
                         tmp |-> remove_local_code ])

\* create_function on the target: ResourceConflictException, a ClientError,
\* when a function of that name exists
clone_lambda_functions_create_function ==
    /\ kind = "lambda" /\ pc = "create_function"
    /\ LET function == listing[idx].Function
           function_name == function.FunctionName
           request == [ FunctionName |-> function_name,
                        Runtime |-> function.Runtime,
                        Role |-> LambdaRole,
                        Handler |-> function.Handler,
                        Code |-> [ S3Bucket |-> LOCALSTACK_S3_BUCKET,
                                   S3Key |-> s3_key(function_name) ],
                        Publish |-> TRUE ]
           created == Call("target", "create_function", function_name,
                           request)
       IN  \E r \in { "answer", "ClientError" } :
             IF r = "ClientError"
             THEN Step([ pc |-> "loop", fault |-> TRUE,
                         calls |-> << created >>,
                         tmp |-> remove_local_code,
                         reports |-> << Report(function_name, "failed") >> ])
             ELSE IF function_name \in target.functions
             THEN Step([ pc |-> "loop", refused |-> TRUE,
                         calls |-> << created >>,
                         tmp |-> remove_local_code,
                         reports |-> << Report(function_name, "failed") >> ])
             ELSE Step([ pc |-> "loop", calls |-> << created >>,
                         tmp |-> remove_local_code,
                         target |-> [ target EXCEPT
                                        !.functions = @ \cup { function_name } ],
                         reports |-> << Report(function_name, "created") >> ])

clone_lambda_functions ==
    \/ ensure_bucket_exists
    \/ clone_lambda_functions_list
    \/ clone_lambda_functions_for
    \/ clone_lambda_functions_get_function
    \/ clone_lambda_functions_download
    \/ clone_lambda_functions_upload
    \/ clone_lambda_functions_create_function

(* ------------------------------------------------------------------ *)
(* clone_rds_instances                                                 *)
(* ------------------------------------------------------------------ *)
LOCAL_MYSQL_USER == "master"
LOCAL_MYSQL_PASSWORD == "secret99"

\* str.lower() on the engine names the source reports
lower(engine) ==
    CASE engine = "MySQL" -> "mysql"
      [] engine = "Postgres" -> "postgres"
      [] OTHER -> engine

\* db_instance.get("Engine", "mysql").lower()
engine_of(db_instance) ==
    lower(IF Has(db_instance, "Engine") THEN db_instance.Engine ELSE "mysql")

\* db_instance.get("DBInstanceClass", "db.t2.micro")
class_of(db_instance) ==
    IF Has(db_instance, "DBInstanceClass") THEN db_instance.DBInstanceClass
    ELSE "db.t2.micro"

dump_file(db_instance_id) ==
    << "/", "t", "m", "p", "/" >> \o db_instance_id \o << ".", "s", "q", "l" >>

clone_rds_instances_list ==
    /\ kind = "rds" /\ pc = "start"
    /\ \E ok \in BOOLEAN :
         Step([ pc |-> IF ok THEN "loop" ELSE "done",
                fault |-> ~ ok,
                calls |-> << Call("source", "describe-db-instances", <<>>,
                                  <<>>) >>,
                reports |-> IF ok THEN <<>>
                            ELSE << Report(<<>>, "list-failed") >> ])

clone_rds_instances_for ==
    /\ kind = "rds" /\ pc = "loop"
    /\ IF idx = Len(listing)
       THEN Step([ pc |-> "done" ])
       ELSE LET db_instance == listing[idx + 1]
            IN  IF ~ Has(db_instance, "DBInstanceIdentifier")
                THEN Step([ idx |-> idx + 1 ])
                ELSE Step([ idx |-> idx + 1,
                            pc |-> IF SkippedByFilter(
                                        db_instance.DBInstanceIdentifier)
                                   THEN "loop" ELSE "create" ])

\* the data copy offered for every engine
is_mysql_any(engine) == TRUE

\* engine in ["mysql", "aurora-mysql"] (line 451)
is_mysql(engine) == engine \in { "mysql", "aurora-mysql" }

\* the command with the master username of the source in it
create_db_command_source_user(db_instance) ==
    [ DBInstanceIdentifier |-> db_instance.DBInstanceIdentifier,
      DBInstanceClass |-> class_of(db_instance),
      Engine |-> engine_of(db_instance),
      MasterUsername |-> IF Has(db_instance, "MasterUsername")
                         THEN db_instance.MasterUsername
                         ELSE LOCAL_MYSQL_USER,
      MasterUserPassword |-> LOCAL_MYSQL_PASSWORD ]

\* create_db_command (lines 437-444): the options of create-db-instance
create_db_command(db_instance) ==
    [ DBInstanceIdentifier |-> db_instance.DBInstanceIdentifier,
      DBInstanceClass |-> class_of(db_instance),
      Engine |-> engine_of(db_instance),
      MasterUsername |-> LOCAL_MYSQL_USER,
      MasterUserPassword |-> LOCAL_MYSQL_PASSWORD ]

\* aws rds create-db-instance on the target, with the local credentials;
\* DBInstanceAlreadyExists when the identifier is taken
clone_rds_instances_create ==
    /\ kind = "rds" /\ pc = "create"
    /\ LET db_instance == listing[idx]
           db_instance_id == db_instance.DBInstanceIdentifier
           engine == engine_of(db_instance)
           request == create_db_command(db_instance)
           created == Call("target", "create-db-instance", db_instance_id,
                           request)
           creating == Report(db_instance_id, "creating")
       IN  \E r \in { "answer", "error" } :
             IF r = "error"
             THEN Step([ pc |-> "loop", fault |-> TRUE,
                         calls |-> << created >>,
                         reports |-> << creating,
                                        Report(db_instance_id, "failed") >> ])
             ELSE IF db_instance_id \in target.dbs
             THEN Step([ pc |-> "loop", refused |-> TRUE,
                         calls |-> << created >>,
                         reports |-> << creating,
                                        Report(db_instance_id, "failed") >> ])
             ELSE IF is_mysql(engine)
             THEN Step([ pc |-> "prompt", calls |-> << created >>,
                         target |-> [ target EXCEPT
                                        !.dbs = @ \cup { db_instance_id } ],
                         reports |-> << creating >> ])
             ELSE Step([ pc |-> "loop", calls |-> << created >>,
                         target |-> [ target EXCEPT
                                        !.dbs = @ \cup { db_instance_id } ],
                         reports |-> << creating,
                                        Report(db_instance_id,
                                               "data-skipped-engine") >> ])

\* input(...) and the checks of lines 456-483; an exception here is caught
\* outside the for loop (lines 525-530), which ends the migrator
clone_rds_instances_prompt ==
    /\ kind = "rds" /\ pc = "prompt"
    /\ LET db_instance == listing[idx]
           db_instance_id == db_instance.DBInstanceIdentifier
           skipped == Report(db_instance_id, "data-skipped")
       IN  \E answer \in { "y", "n", "EOFError" } :
             CASE answer = "EOFError" ->
                    Step([ pc |-> "done", fault |-> TRUE,
                           reports |-> << Report(<<>>, "rds-error") >> ])
               [] answer = "n" ->
                    Step([ pc |-> "loop", reports |-> << skipped >> ])
               [] OTHER ->
                    IF ~ Has(db_instance, "Endpoint")
                    THEN Step([ pc |-> "loop", reports |-> << skipped >> ])
                    ELSE IF ~ Has(db_instance.Endpoint, "Address")
                            \/ ~ Has(db_instance.Endpoint, "Port")
                    THEN Step([ pc |-> "done",
                                reports |-> << Report(<<>>, "rds-error") >> ])
                    ELSE IF ~ Has(db_instance, "DBName")
                            \/ config.AWS_RDS_MASTER_PASSWORD = <<>>
                    THEN Step([ pc |-> "loop", reports |-> << skipped >> ])
                    ELSE Step([ pc |-> "dump" ])

\* mysqldump ... > dump_file: the shell creates dump_file before mysqldump runs
clone_rds_instances_dump ==
    /\ kind = "rds" /\ pc = "dump"
    /\ LET db_instance_id == listing[idx].DBInstanceIdentifier
           dumped == Call("source", "mysqldump", db_instance_id, <<>>)
       IN  \E ok \in BOOLEAN :
             Step([ pc |-> IF ok THEN "import" ELSE "loop",
                    fault |-> ~ ok,
                    calls |-> << dumped >>,
                    tmp |-> tmp \cup { dump_file(db_instance_id) },
                    reports |-> IF ok THEN <<>>
                                ELSE << Report(db_instance_id,
                                               "dump-failed") >> ])

\* mysql ... < dump_file, then os.remove(dump_file)
clone_rds_instances_import ==
    /\ kind = "rds" /\ pc = "import"
    /\ LET db_instance_id == listing[idx].DBInstanceIdentifier
           imported == Call("target", "mysql-import", db_instance_id, <<>>)
       IN  \E ok \in BOOLEAN :
             Step([ pc |-> "loop",
                    fault |-> ~ ok,
                    calls |-> << imported >>,
                    tmp |-> tmp \ { dump_file(db_instance_id) },
                    reports |-> << Report(db_instance_id,
                                          IF ok THEN "imported"
                                          ELSE "import-failed") >> ])

clone_rds_instances ==
    \/ clone_rds_instances_list
    \/ clone_rds_instances_for
    \/ clone_rds_instances_create
    \/ clone_rds_instances_prompt
    \/ clone_rds_instances_dump
    \/ clone_rds_instances_import

(* ------------------------------------------------------------------ *)
(* stub_trigger_lambdas and clone_cognito_user_pools                   *)
(* ------------------------------------------------------------------ *)
\* a trigger reference is [ str |-> TRUE, s |-> <tokens> ] or a value that is
\* not a string, [ str |-> FALSE ]; the tokens of a string are never split
FunctionMarker == << "function", ":" >>
FunctionSeparator == << ":", "function", ":" >>

\* position of the first occurrence of sep in s, 0 when there is none
FirstOccurrence(sep, s) ==
    LET at == { i \in 1..(Len(s) - Len(sep) + 1) :
                  SubSeq(s, i, i + Len(sep) - 1) = sep }
    IN  IF at = {} THEN 0 ELSE CHOOSE i \in at : \A j \in at : i <= j

\* s.split(sep)[-1]: what follows the last separator found scanning from
\* the left
RECURSIVE SplitLast(_, _)
SplitLast(s, sep) ==
    LET i == FirstOccurrence(sep, s)
    IN  IF i = 0 THEN s
        ELSE SplitLast(SubSeq(s, i + Len(sep), Len(s)), sep)

\* the test written with the separator ":function:" the name is split on
not_a_function_arn_separator(trigger_arn) ==
    \/ ~ trigger_arn.str
    \/ ~ Contains(FunctionSeparator, trigger_arn.s)

\* not isinstance(trigger_arn, str) or "function:" not in trigger_arn
not_a_function_arn(trigger_arn) ==
    \/ ~ trigger_arn.str
    \/ ~ Contains(FunctionMarker, trigger_arn.s)

\* the outer handler of clone_cognito_user_pools (lines 352-354): the
\* exception is reported and the function returns
cognito_outer_except == [ pc |-> "done",
                          reports |-> << Report(<<>>, "cognito-error") >> ]

\* for trigger_key, trigger_arn in lambda_config.items()
stub_trigger_lambdas_for ==
    /\ kind = "cognito" /\ pc = "stub"
    /\ LET lambda_config == listing[idx].UserPool.LambdaConfig
       IN  IF loc.trigger = Len(lambda_config)
           THEN Step([ pc |-> "create_user_pool" ])
           ELSE LET trigger_arn == lambda_config[loc.trigger + 1].arn
                IN  Step([ loc |-> [ loc EXCEPT !.trigger = @ + 1 ],
                           pc |-> IF not_a_function_arn(trigger_arn)
                                  THEN "stub" ELSE "stub_get_function" ])

\* get_function on the target: found, ResourceNotFoundException, or another
\* exception, which stub_trigger_lambdas does not catch
stub_trigger_lambdas_get_function ==
    /\ kind = "cognito" /\ pc = "stub_get_function"
    /\ LET function_name ==
               SplitLast(listing[idx].UserPool.LambdaConfig[loc.trigger].arn.s,
                         FunctionSeparator)
           got == Call("target", "get_function", function_name,
                       IF function_name \in target.functions
                       THEN "found" ELSE "not-found")
       IN  \E r \in { "answer", "error" } :
             IF r = "error"
             THEN Step(Merge(cognito_outer_except,
                             [ fault |-> TRUE,
                               calls |-> << Call("target", "get_function",
                                                 function_name, "error") >> ]))
             ELSE Step([ pc |-> IF function_name \in target.functions
                                THEN "stub" ELSE "stub_create_function",
                         calls |-> << got >> ])

\* create_function on the target with the stub handler; its exception is
\* printed and the next trigger follows
stub_trigger_lambdas_create_function ==
    /\ kind = "cognito" /\ pc = "stub_create_function"
    /\ LET function_name ==
               SplitLast(listing[idx].UserPool.LambdaConfig[loc.trigger].arn.s,
                         FunctionSeparator)
           created == Call("target", "create_function", function_name,
                           "stub")
       IN  \E ok \in BOOLEAN :
             Step([ pc |-> "stub", fault |-> ~ ok, calls |-> << created >>,
                    target |-> IF ok
                               THEN [ target EXCEPT !.functions =
                                        @ \cup { function_name } ]
                               ELSE target,
                    reports |-> << Report(function_name,
                                          IF ok THEN "stub-created"
                                          ELSE "stub-failed") >> ])

clone_cognito_user_pools_list ==
    /\ kind = "cognito" /\ pc = "start"
    /\ LET listed == Call("source", "list_user_pools", <<>>, <<>>)
       IN  \E ok \in BOOLEAN :
             IF ok THEN Step([ pc |-> "loop", calls |-> << listed >> ])
             ELSE Step(Merge(cognito_outer_except,
                             [ fault |-> TRUE, calls |-> << listed >> ]))

clone_cognito_user_pools_for ==
    /\ kind = "cognito" /\ pc = "loop"
    /\ IF idx = Len(listing)
       THEN Step([ pc |-> "done" ])
       ELSE LET pool_name == listing[idx + 1].Name
            IN  Step([ idx |-> idx + 1, loc |-> NoLoc,
                       pc |-> IF SkippedByFilter(pool_name)
                              THEN "loop" ELSE "describe" ])

\* lines 223-247: the create_user_pool arguments
create_pool_args(pool_details) ==
    Merge(Merge([ PoolName |-> pool_details.Name,
                  Schema |-> "custom:company" ],
                IF Has(pool_details, "Policies")
                THEN [ Policies |-> pool_details.Policies ] ELSE EmptyDict),
          IF Has(pool_details, "LambdaConfig")
          THEN [ LambdaConfig |-> pool_details.LambdaConfig ] ELSE EmptyDict)

\* describe_user_pool on the source; its exception reaches the outer handler
clone_cognito_user_pools_describe ==
    /\ kind = "cognito" /\ pc = "describe"
    /\ LET pool_id == listing[idx].Id
           pool_details == listing[idx].UserPool
           described == Call("source", "describe_user_pool", pool_id, <<>>)
       IN  \E ok \in BOOLEAN :
             IF ~ ok
             THEN Step(Merge(cognito_outer_except,
                             [ fault |-> TRUE, calls |-> << described >> ]))
             ELSE Step([ pc |-> IF Has(pool_details, "LambdaConfig")
                                THEN "stub" ELSE "create_user_pool",
                         loc |-> [ trigger |-> 0 ],
                         calls |-> << described >> ])

\* the identifier the target gives a new pool: pool names are not unique, so
\* every create_user_pool that succeeds makes one more pool
new_pool_id == Cardinality(target.pools) + 1

clone_cognito_user_pools_create_user_pool ==
    /\ kind = "cognito" /\ pc = "create_user_pool"
    /\ LET pool_details == listing[idx].UserPool
           created == Call("target", "create_user_pool", pool_details.Name,
                           create_pool_args(pool_details))
       IN  \E ok \in BOOLEAN :
             IF ok
             THEN Step([ pc |-> "clients", calls |-> << created >>,
                         loc |-> [ local_user_pool_id |-> new_pool_id,
                                   client |-> 0, page |-> 0, user |-> 0 ],
                         target |-> [ target EXCEPT !.pools = @ \cup
                                        { [ Id |-> new_pool_id,
                                            Name |-> pool_details.Name ] } ],
                         reports |-> << Report(pool_details.Name,
                                               "created") >> ])
             ELSE Step([ pc |-> "loop", fault |-> TRUE,
                         calls |-> << created >>,
                         reports |-> << Report(pool_details.Name,
                                               "failed") >> ])

\* the failed listing of the clients leaves the pool: its users are not copied
clone_cognito_user_pools_list_clients_leaves_pool ==
    /\ kind = "cognito" /\ pc = "clients"
    /\ LET pool_id == listing[idx].Id
           listed == Call("source", "list_user_pool_clients", pool_id, <<>>)
       IN  \E ok \in BOOLEAN :
             Step([ pc |-> IF ok THEN "client" ELSE "loop",
                    fault |-> ~ ok, calls |-> << listed >>,
                    reports |-> IF ok THEN <<>>
                                ELSE << Report(pool_id, "clients-failed") >> ])

\* list_user_pool_clients on the source (handler of lines 307-309)
clone_cognito_user_pools_list_clients ==
    /\ kind = "cognito" /\ pc = "clients"
    /\ LET pool_id == listing[idx].Id
           listed == Call("source", "list_user_pool_clients", pool_id, <<>>)
       IN  \E ok \in BOOLEAN :
             Step([ pc |-> IF ok THEN "client" ELSE "users",
                    fault |-> ~ ok, calls |-> << listed >>,
                    reports |-> IF ok THEN <<>>
                                ELSE << Report(pool_id, "clients-failed") >> ])

\* for upc in user_pool_clients: describe on the source, create on the target
\* (handler of lines 303-305)
clone_cognito_user_pools_client ==
    /\ kind = "cognito" /\ pc = "client"
    /\ LET pool_id == listing[idx].Id
           clients == listing[idx].Clients
       IN  IF loc.client = Len(clients)
           THEN Step([ pc |-> "users" ])
           ELSE LET upc == clients[loc.client + 1]
                    described == Call("source", "describe_user_pool_client",
                                      upc.ClientId, <<>>)
                    created == Call("target", "create_user_pool_client",
                                    upc.ClientName,
                                    [ UserPoolId |-> loc.local_user_pool_id ])
                    next == [ loc EXCEPT !.client = @ + 1 ]
                    failed == << Report(upc.ClientId, "client-failed") >>
                IN  \E r \in { "ok", "describe-error", "create-error" } :
                      CASE r = "describe-error" ->
                             Step([ loc |-> next, fault |-> TRUE,
                                    calls |-> << described >>,
                                    reports |-> failed ])
                        [] r = "create-error" ->
                             Step([ loc |-> next, fault |-> TRUE,
                                    calls |-> << described, created >>,
                                    reports |-> failed ])
                        [] OTHER ->
                             Step([ loc |-> next,
                                    calls |-> << described, created >>,
                                    target |-> [ target EXCEPT !.clients =
                                        @ \cup { << loc.local_user_pool_id,
                                                    upc.ClientName >> } ] ])

\* list_users on the source, one page per turn of the while loop (handler of
\* lines 348-350)
clone_cognito_user_pools_list_users ==
    /\ kind = "cognito" /\ pc = "users"
    /\ LET pool_id == listing[idx].Id
           listed == Call("source", "list_users", pool_id, loc.page + 1)
       IN  \E ok \in BOOLEAN :
             IF ok
             THEN Step([ pc |-> "user", calls |-> << listed >>,
                         loc |-> [ loc EXCEPT !.page = @ + 1, !.user = 0 ] ])
             ELSE Step([ pc |-> "loop", fault |-> TRUE,
                         calls |-> << listed >>,
                         reports |-> << Report(pool_id, "users-failed") >> ])

\* the while loop of the users without its break: after the last page it
\* turns without end
clone_cognito_user_pools_user_no_break ==
    /\ kind = "cognito" /\ pc = "user"
    /\ LET pages == listing[idx].UserPages
           aws_users == pages[loc.page]
       IN  IF loc.user = Len(aws_users)
           THEN Step([ pc |-> IF loc.page = Len(pages) THEN "user"
                              ELSE "users" ])
           ELSE LET username == aws_users[loc.user + 1]
                    created == Call("target", "admin_create_user", username,
                                    [ UserPoolId |-> loc.local_user_pool_id ])
                IN  \E ok \in BOOLEAN :
                      Step([ loc |-> [ loc EXCEPT !.user = @ + 1 ],
                             fault |-> ~ ok, calls |-> << created >>,
                             target |-> IF ok
                                        THEN [ target EXCEPT !.users = @ \cup
                                                 { << loc.local_user_pool_id,
                                                      username >> } ]
                                        ELSE target,
                             reports |-> IF ok THEN <<>>
                                         ELSE << Report(username,
                                                        "user-failed") >> ])

\* for aws_user in aws_users: admin_create_user on the target (handler of
\* lines 340-342); after the page, the loop ends when it carries no token
clone_cognito_user_pools_user ==
    /\ kind = "cognito" /\ pc = "user"
    /\ LET pages == listing[idx].UserPages
           aws_users == pages[loc.page]
       IN  IF loc.user = Len(aws_users)
           THEN Step([ pc |-> IF loc.page = Len(pages) THEN "loop"
                              ELSE "users" ])
           ELSE LET username == aws_users[loc.user + 1]
                    created == Call("target", "admin_create_user", username,
                                    [ UserPoolId |-> loc.local_user_pool_id ])
                IN  \E ok \in BOOLEAN :
                      Step([ loc |-> [ loc EXCEPT !.user = @ + 1 ],
                             fault |-> ~ ok, calls |-> << created >>,
                             target |-> IF ok
                                        THEN [ target EXCEPT !.users = @ \cup
                                                 { << loc.local_user_pool_id,
                                                      username >> } ]
                                        ELSE target,
                             reports |-> IF ok THEN <<>>
                                         ELSE << Report(username,
                                                        "user-failed") >> ])

clone_cognito_user_pools ==
    \/ clone_cognito_user_pools_list
    \/ clone_cognito_user_pools_for
    \/ clone_cognito_user_pools_describe
    \/ stub_trigger_lambdas_for
    \/ stub_trigger_lambdas_get_function
    \/ stub_trigger_lambdas_create_function
    \/ clone_cognito_user_pools_create_user_pool
    \/ clone_cognito_user_pools_list_clients
    \/ clone_cognito_user_pools_client
    \/ clone_cognito_user_pools_list_users
    \/ clone_cognito_user_pools_user

(* ------------------------------------------------------------------ *)
(* clone_dynamodb_tables                                               *)
(* ------------------------------------------------------------------ *)
\* items per batch_write_item call: len(items_to_copy) == 25
BatchSize == 25

\* the capacity copied without the floor
max1_unfloored(x) == x

\* max(1, x)
max1(x) == IF x > 1 THEN x ELSE 1

\* table_def.get("BillingModeSummary", {}).get("BillingMode", "PROVISIONED")
billing_mode(table_def) ==
    IF Has(table_def, "BillingModeSummary")
       /\ Has(table_def.BillingModeSummary, "BillingMode")
    THEN table_def.BillingModeSummary.BillingMode
    ELSE "PROVISIONED"

\* table_def.get("GlobalSecondaryIndexes", [])
global_secondary_indexes(table_def) ==
    IF Has(table_def, "GlobalSecondaryIndexes")
    THEN table_def.GlobalSecondaryIndexes ELSE <<>>

local_secondary_indexes(table_def) ==
    IF Has(table_def, "LocalSecondaryIndexes")
    THEN table_def.LocalSecondaryIndexes ELSE <<>>

\* the index of an on-demand table copied as the source describes it
gsi_on_demand_verbatim(gsi) == gsi

\* the index of an on-demand table: name, key schema and projection only
gsi_on_demand(gsi) ==
    [ IndexName |-> gsi.IndexName, KeySchema |-> gsi.KeySchema,
      Projection |-> gsi.Projection ]

\* the index of a provisioned table: its capacities floored at 1
gsi_provisioned(gsi) ==
    [ IndexName |-> gsi.IndexName, KeySchema |-> gsi.KeySchema,
      Projection |-> gsi.Projection,
      ProvisionedThroughput |->
        [ ReadCapacityUnits |->
            max1(gsi.ProvisionedThroughput.ReadCapacityUnits),
          WriteCapacityUnits |->
            max1(gsi.ProvisionedThroughput.WriteCapacityUnits) ] ]

lsi_copy(lsi) ==
    [ IndexName |-> lsi.IndexName, KeySchema |-> lsi.KeySchema,
      Projection |-> lsi.Projection ]

\* a subscript of a key that is absent raises KeyError
create_params_KeyError(table_def) ==
    \/ ~ Has(table_def, "KeySchema")
    \/ ~ Has(table_def, "AttributeDefinitions")
    \/ /\ billing_mode(table_def) # "PAY_PER_REQUEST"
       /\ \/ ~ Has(table_def, "ProvisionedThroughput")
          \/ \E i \in DOMAIN global_secondary_indexes(table_def) :
               ~ Has(global_secondary_indexes(table_def)[i],
                     "ProvisionedThroughput")

\* lines 559-608: the create_table request built from the source description
create_params(table_name, table_def) ==
    LET gsis == global_secondary_indexes(table_def)
        lsis == local_secondary_indexes(table_def)
        on_demand == billing_mode(table_def) = "PAY_PER_REQUEST"
        base == [ TableName |-> table_name,
                  KeySchema |-> table_def.KeySchema,
                  AttributeDefinitions |-> table_def.AttributeDefinitions ]
        with_gsi ==
            IF gsis = <<>> THEN EmptyDict
            ELSE [ GlobalSecondaryIndexes |->
                     [ i \in DOMAIN gsis |->
                         IF on_demand THEN gsi_on_demand(gsis[i])
                         ELSE gsi_provisioned(gsis[i]) ] ]
        with_lsi ==
            IF lsis = <<>> THEN EmptyDict
            ELSE [ LocalSecondaryIndexes |->
                     [ i \in DOMAIN lsis |-> lsi_copy(lsis[i]) ] ]
        with_billing ==
            IF on_demand THEN [ BillingMode |-> "PAY_PER_REQUEST" ]
            ELSE [ ProvisionedThroughput |->
                     [ ReadCapacityUnits |->
                         max1(table_def.ProvisionedThroughput.ReadCapacityUnits),
                       WriteCapacityUnits |->
                         max1(table_def.ProvisionedThroughput.WriteCapacityUnits) ] ]
    IN  Merge(Merge(Merge(base, with_gsi), with_lsi), with_billing)

clone_dynamodb_tables_list ==
    /\ kind = "dynamodb" /\ pc = "start"
    /\ \E ok \in BOOLEAN :
         Step([ pc |-> IF ok THEN "loop" ELSE "done",
                fault |-> ~ ok,
                calls |-> << Call("source", "list-tables", <<>>, <<>>) >>,
                reports |-> IF ok THEN <<>>
                            ELSE << Report(<<>>, "list-failed") >> ])

clone_dynamodb_tables_for ==
    /\ kind = "dynamodb" /\ pc = "loop"
    /\ IF idx = Len(listing)
       THEN Step([ pc |-> "done" ])
       ELSE LET table_name == listing[idx + 1].TableName
            IN  Step([ idx |-> idx + 1, loc |-> NoLoc,
                       pc |-> IF SkippedByFilter(table_name)
                              THEN "loop" ELSE "describe" ])

\* describe_table on the source, then the request is built; every exception
\* is caught by the handlers of lines 633-637 and the loop goes on
clone_dynamodb_tables_describe ==
    /\ kind = "dynamodb" /\ pc = "describe"
    /\ LET table_name == listing[idx].TableName
           table_def == listing[idx].Table
           described == Call("source", "describe_table", table_name, <<>>)
       IN  \E r \in { "ok", "not-found", "error" } :
             IF r # "ok"
             THEN Step([ pc |-> "loop", fault |-> TRUE,
                         calls |-> << described >>,
                         reports |-> << Report(table_name,
                                          IF r = "not-found"
                                          THEN "source-not-found"
                                          ELSE "failed") >> ])
             ELSE IF create_params_KeyError(table_def)
             THEN Step([ pc |-> "loop", calls |-> << described >>,
                         reports |-> << Report(table_name, "failed") >> ])
             ELSE Step([ pc |-> "create_table", calls |-> << described >>,
                         loc |-> [ create_params |->
                                     create_params(table_name, table_def) ] ])

\* the table that exists already is left alone: no copy into it
clone_dynamodb_tables_create_table_skip_existing ==
    /\ kind = "dynamodb" /\ pc = "create_table"
    /\ LET table_name == listing[idx].TableName
           created == Call("target", "create_table", table_name,
                           loc.create_params)
       IN  \E r \in { "ok", "error" } :
             IF r = "error"
             THEN Step([ pc |-> "loop", fault |-> TRUE,
                         calls |-> << created >>,
                         reports |-> << Report(table_name, "failed") >> ])
             ELSE IF table_name \in target.tables
             THEN Step([ pc |-> "loop", refused |-> TRUE,
                         calls |-> << created >>,
                         reports |-> << Report(table_name,
                                               "already-exists") >> ])
             ELSE Step([ pc |-> "wait", calls |-> << created >>,
                         target |-> [ target EXCEPT
                                        !.tables = @ \cup { table_name } ] ])

\* create_table on the target: ResourceInUseException when the table exists
clone_dynamodb_tables_create_table ==
    /\ kind = "dynamodb" /\ pc = "create_table"
    /\ LET table_name == listing[idx].TableName
           created == Call("target", "create_table", table_name,
                           loc.create_params)
       IN  \E r \in { "ok", "error" } :
             IF r = "error"
             THEN Step([ pc |-> "loop", fault |-> TRUE,
                         calls |-> << created >>,
                         reports |-> << Report(table_name, "failed") >> ])
             ELSE IF table_name \in target.tables
             THEN Step([ pc |-> "scan", refused |-> TRUE,
                         calls |-> << created >>,
                         loc |-> [ page |-> 0, item |-> 0,
                                   items_to_copy |-> <<>> ],
                         reports |-> << Report(table_name,
                                               "already-exists") >> ])
             ELSE Step([ pc |-> "wait", calls |-> << created >>,
                         target |-> [ target EXCEPT
                                        !.tables = @ \cup { table_name } ] ])

\* get_waiter('table_exists').wait, reached only after a create that succeeded
clone_dynamodb_tables_wait ==
    /\ kind = "dynamodb" /\ pc = "wait"
    /\ LET table_name == listing[idx].TableName
           waited == Call("target", "wait_table_exists", table_name, <<>>)
       IN  \E ok \in BOOLEAN :
             IF ok
             THEN Step([ pc |-> "scan", calls |-> << waited >>,
                         loc |-> [ page |-> 0, item |-> 0,
                                   items_to_copy |-> <<>> ],
                         reports |-> << Report(table_name, "created") >> ])
             ELSE Step([ pc |-> "loop", fault |-> TRUE,
                         calls |-> << waited >>,
                         reports |-> << Report(table_name, "failed") >> ])

\* the scan with the batch begun anew at every page
clone_dynamodb_tables_scan_per_page ==
    /\ kind = "dynamodb" /\ pc = "scan"
    /\ LET table_name == listing[idx].TableName
           pages == listing[idx].Pages
       IN  IF loc.page = Len(pages)
           THEN Step([ pc |-> "remainder" ])
           ELSE \E ok \in BOOLEAN :
                  IF ok
                  THEN Step([ pc |-> "items",
                              loc |-> [ loc EXCEPT !.page = @ + 1,
                                                   !.item = 0,
                                                   !.items_to_copy = <<>> ],
                              calls |-> << Call("source", "scan", table_name,
                                                pages[loc.page + 1]) >> ])
                  ELSE Step([ pc |-> "loop", fault |-> TRUE,
                              calls |-> << Call("source", "scan", table_name,
                                                <<>>) >>,
                              reports |-> << Report(table_name, "failed") >> ])

\* for page in paginator.paginate(TableName=table_name): the next page is
\* fetched from the source when the loop asks for it
clone_dynamodb_tables_scan ==
    /\ kind = "dynamodb" /\ pc = "scan"
    /\ LET table_name == listing[idx].TableName
           pages == listing[idx].Pages
       IN  IF loc.page = Len(pages)
           THEN Step([ pc |-> "remainder" ])
           ELSE \E ok \in BOOLEAN :
                  IF ok
                  THEN Step([ pc |-> "items",
                              loc |-> [ loc EXCEPT !.page = @ + 1,
                                                   !.item = 0 ],
                              calls |-> << Call("source", "scan", table_name,
                                                pages[loc.page + 1]) >> ])
                  ELSE Step([ pc |-> "loop", fault |-> TRUE,
                              calls |-> << Call("source", "scan", table_name,
                                                <<>>) >>,
                              reports |-> << Report(table_name, "failed") >> ])

\* for item in items: append, and write the batch when it holds 25
clone_dynamodb_tables_item ==
    /\ kind = "dynamodb" /\ pc = "items"
    /\ LET table_name == listing[idx].TableName
           items == listing[idx].Pages[loc.page]
       IN  IF loc.item = Len(items)
           THEN Step([ pc |-> "scan" ])
           ELSE LET appended == Append(loc.items_to_copy, items[loc.item + 1])
                    written == Call("target", "batch_write_item", table_name,
                                    appended)
                IN  IF Len(appended) = BatchSize
                    THEN \E ok \in BOOLEAN :
                           IF ok
                           THEN Step([ loc |-> [ loc EXCEPT
                                                   !.item = @ + 1,
                                                   !.items_to_copy = <<>> ],
                                       calls |-> << written >> ])
                           ELSE Step([ pc |-> "loop", fault |-> TRUE,
                                       calls |-> << written >>,
                                       reports |-> << Report(table_name,
                                                             "failed") >> ])
                    ELSE Step([ loc |-> [ loc EXCEPT
                                            !.item = @ + 1,
                                            !.items_to_copy = appended ] ])

\* the end of the copy without the write of the remainder
clone_dynamodb_tables_remainder_dropped ==
    /\ kind = "dynamodb" /\ pc = "remainder"
    /\ Step([ pc |-> "loop",
              reports |-> << Report(listing[idx].TableName, "cloned") >> ])

\* if items_to_copy: the remainder is written after the last page
clone_dynamodb_tables_remainder ==
    /\ kind = "dynamodb" /\ pc = "remainder"
    /\ LET table_name == listing[idx].TableName
           written == Call("target", "batch_write_item", table_name,
                           loc.items_to_copy)
           cloned == Report(table_name, "cloned")
       IN  IF loc.items_to_copy = <<>>
           THEN Step([ pc |-> "loop", reports |-> << cloned >> ])
           ELSE \E ok \in BOOLEAN :
                  IF ok
                  THEN Step([ pc |-> "loop", calls |-> << written >>,
                              reports |-> << cloned >> ])
                  ELSE Step([ pc |-> "loop", fault |-> TRUE,
                              calls |-> << written >>,
                              reports |-> << Report(table_name, "failed") >> ])

clone_dynamodb_tables ==
    \/ clone_dynamodb_tables_list
    \/ clone_dynamodb_tables_for
    \/ clone_dynamodb_tables_describe
    \/ clone_dynamodb_tables_create_table
    \/ clone_dynamodb_tables_wait
    \/ clone_dynamodb_tables_scan
    \/ clone_dynamodb_tables_item
    \/ clone_dynamodb_tables_remainder

(* ------------------------------------------------------------------ *)
(* A second run of the same migrator on the target the first run left  *)
(* ------------------------------------------------------------------ *)
MaxRuns == 2

run_again ==
    /\ pc = "done" /\ run < MaxRuns
    /\ run' = run + 1
    /\ pc' = "start" /\ idx' = 0 /\ loc' = NoLoc
    /\ UNCHANGED << kind, filter_name, listing, target, tmp, calls, reports,
                    faults, config >>

(* ------------------------------------------------------------------ *)
(* Source accounts                                                     *)
(* ------------------------------------------------------------------ *)
FunctionArn(function_name) ==
    [ str |-> TRUE,
      s |-> << "arn", ":", "lambda", ":", "function", ":" >> \o function_name ]

Items(first, n) == [ i \in 1..n |-> first + i - 1 ]

\* the pages of a scan whose page p holds sizes[p] items, numbered in order
RECURSIVE PagesOf(_, _)
PagesOf(sizes, first) ==
    IF sizes = <<>> THEN <<>>
    ELSE << Items(first, Head(sizes)) >>
         \o PagesOf(Tail(sizes), first + Head(sizes))

OnDemandTable ==
    [ KeySchema |-> "key-schema", AttributeDefinitions |-> "attributes",
      BillingModeSummary |-> [ BillingMode |-> "PAY_PER_REQUEST" ],
      ProvisionedThroughput |->
        [ ReadCapacityUnits |-> 0, WriteCapacityUnits |-> 0 ],
      GlobalSecondaryIndexes |->
        << [ IndexName |-> "by-customer", KeySchema |-> "gsi-keys",
             Projection |-> "ALL",
             ProvisionedThroughput |->
               [ ReadCapacityUnits |-> 0, WriteCapacityUnits |-> 0 ] ] >> ]

\* one plain instance of kind k named name
Instance(k, name) ==
    CASE k = "s3" -> [ Name |-> name ]
      [] k = "sqs" -> [ QueueUrl |-> QueueUrl(name) ]
      [] k = "lambda" ->
           [ Function |-> [ FunctionName |-> name, Runtime |-> "python3.9",
                            Handler |-> "app.handler" ],
             Details |-> [ Code |-> [ Location |-> "https://code" ] ] ]
      [] k = "cognito" ->
           [ Name |-> name, Id |-> << "i", "d" >> \o name,
             UserPool |->
               [ Name |-> name, Policies |-> "policies",
                 LambdaConfig |->
                   << [ key |-> "PreSignUp",
                        arn |-> FunctionArn(<< "f" >>) ] >> ],
             Clients |-> << [ ClientId |-> "c1", ClientName |-> "web" ] >>,
             UserPages |-> << << "u1" >> >> ]
      [] k = "rds" ->
           [ DBInstanceIdentifier |-> name, DBInstanceClass |-> "db.t3.micro",
             Engine |-> "MySQL",
             Endpoint |-> [ Address |-> "host", Port |-> 3306 ],
             MasterUsername |-> "root", DBName |-> "app" ]
      [] k = "dynamodb" ->
           [ TableName |-> name, Table |-> OnDemandTable,
             Pages |-> PagesOf(<< 2 >>, 1) ]

DefaultConfig == [ AWS_RDS_MASTER_PASSWORD |-> << "p", "w" >> ]

(* ------------------------------------------------------------------ *)
(* Specifications                                                      *)
(* ------------------------------------------------------------------ *)
InitWith(k, l, f, t) ==
    /\ kind = k /\ listing = l /\ filter_name = f /\ target = t
    /\ idx = 0 /\ pc = "start" /\ loc = NoLoc /\ tmp = {}
    /\ calls = <<>> /\ reports = <<>> /\ faults = 0 /\ run = 1
    /\ config = DefaultConfig

Kinds == { "s3", "sqs", "lambda", "cognito", "rds", "dynamodb" }

\* every migrator, on every listing of distinct names and every filter
Init ==
    \E k \in Kinds, names \in SeqsUpTo(NameSet, MaxList), f \in FilterSet :
        InitWith(k, [ i \in 1..Len(names) |-> Instance(k, names[i]) ], f,
                 EmptyTarget)

Next ==
    \/ clone_s3_buckets
    \/ clone_sqs_queues
    \/ clone_lambda_functions
    \/ clone_cognito_user_pools
    \/ clone_rds_instances
    \/ clone_dynamodb_tables

Spec == Init /\ [][Next]_vars

(* ------------------------------------------------------------------ *)
(* Vocabulary of the properties                                        *)
(* ------------------------------------------------------------------ *)
\* f occurs in name: name is some prefix, then f, then some suffix
IsSubstring(f, name) ==
    \E before \in 0..Len(name) :
        /\ before + Len(f) <= Len(name)
        /\ \A k \in 1..Len(f) : name[before + k] = f[k]

KeptByFilter(name) ==
    filter_name = <<>> \/ IsSubstring(filter_name[1], name)

\* the first call a migrator makes for an instance (a describe of the source,
\* or the create on the target when it describes nothing)
FirstOps ==
    { "create-bucket", "create-queue", "get_function", "describe_user_pool",
      "create-db-instance", "describe_table" }
ListOps ==
    { "list-buckets", "list-queues", "list-functions", "list_user_pools",
      "describe-db-instances", "list-tables" }
CreateOps ==
    { "create-bucket", "create-queue", "create_function", "create_user_pool",
      "create-db-instance", "create_table", "create_bucket" }
CheckOps == { "head_bucket", "get_function" }

\* the identifier the first call for the instance named n carries
CallId(n) == IF kind = "cognito" THEN Instance(kind, n).Id ELSE n

\* names for which a describe or a create has been attempted
AttemptedNames ==
    { n \in NameSet :
        \E i \in DOMAIN calls :
            /\ calls[i].op \in FirstOps
            /\ calls[i].env = (IF kind \in { "s3", "sqs", "rds" }
                               THEN "target" ELSE "source")
            /\ calls[i].id = CallId(n) }

\* names among the first m listed instances that the filter keeps
KeptAmong(m) ==
    { n \in NameSet :
        /\ \E i \in 1..m : listing[i] = Instance(kind, n)
        /\ KeptByFilter(n) }

\* the loop has taken listing[idx] and its first call is still to come
AtFirstCall == pc \in { "create", "get_function", "describe" }

(* ------------------------------------------------------------------ *)
(* C3: in every migrator, the instances for which a describe or a      *)
(* create is attempted are exactly the listed instances, among those   *)
(* the loop has reached, whose name contains the filter as a           *)
(* case-sensitive substring; with no filter, all of those reached.     *)
(* ------------------------------------------------------------------ *)
Thm_C3_NameFilter ==
    AttemptedNames = KeptAmong(IF AtFirstCall THEN idx - 1 ELSE idx)

\* a run that ended past a listing of two, one kept by a real filter and one
\* skipped by it
Wit_C3_NameFilter ==
    /\ pc = "done" /\ idx = 2 /\ Len(listing) = 2
    /\ filter_name = << << "a", "b" >> >>
    /\ AttemptedNames = { << "a", "b" >> }
    /\ \E i \in 1..2 : listing[i] = Instance(kind, << "A", "b" >>)

(* ------------------------------------------------------------------ *)
(* C7: in the function migrator every create_function call comes after *)
(* a download of that function's code that returned 200 and after an   *)
(* upload of it to the configured bucket that succeeded, and names     *)
(* that bucket and that key; a function the filter skips, or whose     *)
(* download or upload failed, gets no create_function call.            *)
(* ------------------------------------------------------------------ *)
Thm_C7_StagedBeforeCreate ==
    kind = "lambda" =>
      /\ \A k \in DOMAIN calls :
           calls[k].op = "create_function" =>
             /\ KeptByFilter(calls[k].id)
             /\ calls[k].data.Code.S3Bucket = LOCALSTACK_S3_BUCKET
             /\ \E i, j \in 1..(k - 1) :
                  /\ i < j
                  /\ calls[i].op = "download" /\ calls[i].ok
                  /\ calls[i].id = calls[k].id /\ calls[i].run = calls[k].run
                  /\ calls[j].op = "upload_file" /\ calls[j].ok
                  /\ calls[j].id = calls[k].id /\ calls[j].run = calls[k].run
                  /\ calls[j].data.Bucket = LOCALSTACK_S3_BUCKET
                  /\ calls[j].data.Key = calls[k].data.Code.S3Key
      /\ \A i, k \in DOMAIN calls :
           /\ calls[i].op \in { "download", "upload_file" }
           /\ ~ calls[i].ok
           /\ calls[i].run = calls[k].run
           /\ calls[i].id = calls[k].id
           => calls[k].op # "create_function"

\* f1 skipped by the filter, f2 downloaded, staged and created
Wit_C7_StagedBeforeCreate ==
    /\ kind = "lambda" /\ pc = "done" /\ Len(listing) = 2
    /\ filter_name = << << "a", "b" >> >>
    /\ target.functions = { << "a", "b" >> }
    /\ \E k \in DOMAIN calls : calls[k].op = "create_function" /\ calls[k].ok

(* ------------------------------------------------------------------ *)
(* C9 as stated: once a migrator whose list call succeeded has ended,  *)
(* every listed instance that passes the filter has been processed,    *)
(* whatever failed for the instances before it.                        *)
(* ------------------------------------------------------------------ *)
ListSucceeded ==
    \E i \in DOMAIN calls : calls[i].op \in ListOps /\ calls[i].ok

Cex_C9_LaterInstancesProcessed ==
    (pc \in { "done", "raised" } /\ ListSucceeded)
        => AttemptedNames = KeptAmong(Len(listing))

(* ------------------------------------------------------------------ *)
(* C10 as stated: every create call to the target is preceded, in the  *)
(* same run, by an existence check on the target for the same          *)
(* identifier.                                                         *)
(* ------------------------------------------------------------------ *)
Cex_C10_CheckBeforeCreate ==
    \A k \in DOMAIN calls :
        (calls[k].env = "target" /\ calls[k].op \in CreateOps) =>
            \E i \in 1..(k - 1) :
                /\ calls[i].env = "target" /\ calls[i].op \in CheckOps
                /\ calls[i].id = calls[k].id /\ calls[i].run = calls[k].run

(* ------------------------------------------------------------------ *)
(* SpecRerun: the function, user-pool and table migrators run twice on *)
(* the same source, the second run on the target the first one left    *)
(* ------------------------------------------------------------------ *)
RerunKinds == { "lambda", "cognito", "dynamodb" }

InitRerun ==
    \E k \in RerunKinds, names \in SeqsUpTo(NameSet, MaxList) :
        InitWith(k, [ i \in 1..Len(names) |-> Instance(k, names[i]) ], <<>>,
                 EmptyTarget)

NextRerun ==
    \/ clone_lambda_functions
    \/ clone_cognito_user_pools
    \/ clone_dynamodb_tables
    \/ run_again

SpecRerun == InitRerun /\ [][NextRerun]_vars

\* identifiers whose create call succeeded in the first run
CreatedInFirstRun ==
    { calls[i].id : i \in { j \in DOMAIN calls :
                              /\ calls[j].run = 1 /\ calls[j].ok
                              /\ calls[j].env = "target"
                              /\ calls[j].op \in CreateOps
                              /\ calls[j].op =
                                   (CASE kind = "lambda" -> "create_function"
                                      [] kind = "cognito" -> "create_user_pool"
                                      [] OTHER -> "create_table") } }

ReportedInSecondRun(id, status) ==
    \E i \in DOMAIN reports :
        /\ reports[i].run = 2 /\ reports[i].id = id
        /\ reports[i].status = status

(* ------------------------------------------------------------------ *)
(* C1 as stated: when the second run of a migrator has ended and the   *)
(* environment failed no call, every identifier the first run created  *)
(* is reported already-exists by the second run, none of them is       *)
(* reported failed, and the target holds no second resource for it.    *)
(* ------------------------------------------------------------------ *)
Cex_C1_RerunAlreadyExists ==
    (run = 2 /\ pc = "done" /\ faults = 0) =>
        \A id \in CreatedInFirstRun :
            /\ ReportedInSecondRun(id, "already-exists")
            /\ ~ ReportedInSecondRun(id, "failed")
            /\ Cardinality({ p \in target.pools : p.Name = id }) <= 1

(* ------------------------------------------------------------------ *)
(* SpecTables: the table migrator on one table of every description    *)
(* ------------------------------------------------------------------ *)
\* most global secondary indexes of a described table
MaxIndexes == 1

Throughputs ==
    { [ ReadCapacityUnits |-> c[1], WriteCapacityUnits |-> c[2] ] :
        c \in { << 0, 0 >>, << 0, 2 >>, << 1, 0 >>, << 3, 1 >> } }
ThroughputOptions ==
    { EmptyDict } \cup { [ ProvisionedThroughput |-> t ] : t \in Throughputs }
BillingOptions ==
    { EmptyDict, [ BillingModeSummary |-> EmptyDict ],
      [ BillingModeSummary |-> [ BillingMode |-> "PROVISIONED" ] ],
      [ BillingModeSummary |-> [ BillingMode |-> "PAY_PER_REQUEST" ] ] }
IndexNames == << "by-customer", "by-date", "by-status" >>
GsiLists ==
    UNION { { [ i \in 1..m |->
                  Merge([ IndexName |-> IndexNames[i],
                          KeySchema |-> << "keys", IndexNames[i] >>,
                          Projection |-> << "all", IndexNames[i] >> ],
                        o[i]) ] : o \in [ 1..m -> ThroughputOptions ] }
            : m \in 0..MaxIndexes }
LsiOptions ==
    { EmptyDict,
      [ LocalSecondaryIndexes |->
          << [ IndexName |-> "local", KeySchema |-> "local-keys",
               Projection |-> "KEYS_ONLY", IndexSizeBytes |-> 0 ] >> ] }
TableDefs ==
    { Merge(Merge(Merge(Merge([ KeySchema |-> "key-schema",
                                AttributeDefinitions |-> "attributes" ], b),
                        t),
                  IF g = <<>> THEN EmptyDict
                  ELSE [ GlobalSecondaryIndexes |-> g ]),
            l) :
        b \in BillingOptions, t \in ThroughputOptions, g \in GsiLists,
        l \in LsiOptions }

InitTables ==
    \E d \in TableDefs :
        InitWith("dynamodb",
                 << [ TableName |-> << "a", "b" >>, Table |-> d,
                      Pages |-> PagesOf(<< 1 >>, 1) ] >>,
                 <<>>, EmptyTarget)

SpecTables == InitTables /\ [][clone_dynamodb_tables]_vars

\* the description of the table a create_table call is for
SourceTable(call) ==
    listing[CHOOSE i \in DOMAIN listing :
                listing[i].TableName = call.id].Table
OnDemand(table_def) ==
    /\ "BillingModeSummary" \in DOMAIN table_def
    /\ "BillingMode" \in DOMAIN table_def.BillingModeSummary
    /\ table_def.BillingModeSummary.BillingMode = "PAY_PER_REQUEST"
SourceIndexes(table_def) ==
    IF "GlobalSecondaryIndexes" \in DOMAIN table_def
    THEN table_def.GlobalSecondaryIndexes ELSE <<>>
Floored(src, out) ==
    /\ out.ReadCapacityUnits >= 1
    /\ out.WriteCapacityUnits >= 1
    /\ src.ReadCapacityUnits >= 1
         => out.ReadCapacityUnits = src.ReadCapacityUnits
    /\ src.WriteCapacityUnits >= 1
         => out.WriteCapacityUnits = src.WriteCapacityUnits

(* ------------------------------------------------------------------ *)
(* C4: every create_table request for a source table that is not       *)
(* on-demand carries, for the table and for each global secondary      *)
(* index of the source, read and write capacities that are at least 1  *)
(* and equal to the source's when those are at least 1.                *)
(* ------------------------------------------------------------------ *)
Thm_C4_CapacityFloor ==
    \A k \in DOMAIN calls :
        (calls[k].op = "create_table" /\ ~ OnDemand(SourceTable(calls[k])))
        => LET src == SourceTable(calls[k])
               req == calls[k].data
           IN  /\ "ProvisionedThroughput" \in DOMAIN req
               /\ Floored(src.ProvisionedThroughput, req.ProvisionedThroughput)
               /\ SourceIndexes(src) # <<>> =>
                    /\ "GlobalSecondaryIndexes" \in DOMAIN req
                    /\ Len(req.GlobalSecondaryIndexes)
                         = Len(SourceIndexes(src))
                    /\ \A i \in DOMAIN SourceIndexes(src) :
                         Floored(SourceIndexes(src)[i].ProvisionedThroughput,
                                 req.GlobalSecondaryIndexes[i]
                                    .ProvisionedThroughput)

\* a provisioned table and an index of it, both described with capacity 0,
\* reach the target
Wit_C4_CapacityFloor ==
    \E k \in DOMAIN calls :
        /\ calls[k].op = "create_table" /\ calls[k].ok
        /\ ~ OnDemand(SourceTable(calls[k]))
        /\ SourceTable(calls[k]).ProvisionedThroughput.ReadCapacityUnits = 0
        /\ SourceIndexes(SourceTable(calls[k])) # <<>>
        /\ SourceIndexes(SourceTable(calls[k]))[1]
              .ProvisionedThroughput.WriteCapacityUnits = 0
        /\ calls[k].data.GlobalSecondaryIndexes[1]
              .ProvisionedThroughput.WriteCapacityUnits = 1

(* ------------------------------------------------------------------ *)
(* C6: every create_table request for an on-demand source table sets   *)
(* billing mode PAY_PER_REQUEST, has no table-level provisioned        *)
(* throughput, and lists each global secondary index of the source, in *)
(* order, with its name, key schema and projection and nothing else.   *)
(* ------------------------------------------------------------------ *)
Thm_C6_OnDemandRequest ==
    \A k \in DOMAIN calls :
        (calls[k].op = "create_table" /\ OnDemand(SourceTable(calls[k])))
        => LET src == SourceIndexes(SourceTable(calls[k]))
               req == calls[k].data
           IN  /\ "BillingMode" \in DOMAIN req
               /\ req.BillingMode = "PAY_PER_REQUEST"
               /\ "ProvisionedThroughput" \notin DOMAIN req
               /\ IF src = <<>>
                  THEN "GlobalSecondaryIndexes" \notin DOMAIN req
                  ELSE /\ "GlobalSecondaryIndexes" \in DOMAIN req
                       /\ Len(req.GlobalSecondaryIndexes) = Len(src)
                       /\ \A i \in DOMAIN src :
                            LET out == req.GlobalSecondaryIndexes[i]
                            IN  /\ DOMAIN out = { "IndexName", "KeySchema",
                                                  "Projection" }
                                /\ out.IndexName = src[i].IndexName
                                /\ out.KeySchema = src[i].KeySchema
                                /\ out.Projection = src[i].Projection

\* an on-demand table whose index is described with a throughput is created
Wit_C6_OnDemandRequest ==
    \E k \in DOMAIN calls :
        /\ calls[k].op = "create_table" /\ calls[k].ok
        /\ OnDemand(SourceTable(calls[k]))
        /\ SourceIndexes(SourceTable(calls[k])) # <<>>
        /\ "ProvisionedThroughput"
              \in DOMAIN SourceIndexes(SourceTable(calls[k]))[1]
        /\ Len(calls[k].data.GlobalSecondaryIndexes) = 1

(* ------------------------------------------------------------------ *)
(* SpecCopy: the table migrator on one table, for every paging of its  *)
(* scan, with the table absent from the target or already in it        *)
(* ------------------------------------------------------------------ *)
\* most pages of a scan
MaxPages == 2
PageSizes == { 0, 1, 24, 25, 26 }
Scans ==
    UNION { [ 1..m -> PageSizes ] : m \in 1..MaxPages }

InitCopy ==
    \E sizes \in Scans, held \in { {}, { << "a", "b" >> } } :
        InitWith("dynamodb",
                 << [ TableName |-> << "a", "b" >>, Table |-> OnDemandTable,
                      Pages |-> PagesOf(sizes, 1) ] >>,
                 <<>>, [ EmptyTarget EXCEPT !.tables = held ])

SpecCopy == InitCopy /\ [][clone_dynamodb_tables]_vars

\* items carried by the calls op made for table id, all calls together
RECURSIVE ItemsCarried(_, _, _)
ItemsCarried(cs, op, id) ==
    IF cs = <<>> THEN 0
    ELSE (IF Head(cs).op = op /\ Head(cs).id = id THEN Len(Head(cs).data)
          ELSE 0) + ItemsCarried(Tail(cs), op, id)

(* ------------------------------------------------------------------ *)
(* C2: no batch_write_item call carries more than 25 items, and for    *)
(* every table whose copy ran to its end the items carried by all its  *)
(* batch_write_item calls number as many as the items its scan         *)
(* returned, whatever the pages.                                       *)
(* ------------------------------------------------------------------ *)
Thm_C2_ItemsWritten ==
    /\ \A k \in DOMAIN calls :
         calls[k].op = "batch_write_item" => Len(calls[k].data) <= 25
    /\ \A r \in DOMAIN reports :
         reports[r].status = "cloned" =>
           ItemsCarried(calls, "batch_write_item", reports[r].id)
             = ItemsCarried(calls, "scan", reports[r].id)

\* a copy that ended after a full batch that spans two pages and a
\* remainder of one item
Wit_C2_ItemsWritten ==
    /\ \E r \in DOMAIN reports : reports[r].status = "cloned"
    /\ Len(listing[1].Pages) = 2
    /\ Len(listing[1].Pages[1]) = 1
    /\ \E k \in DOMAIN calls :
         calls[k].op = "batch_write_item" /\ Len(calls[k].data) = 25
    /\ \E k \in DOMAIN calls :
         calls[k].op = "batch_write_item" /\ Len(calls[k].data) = 1

(* ------------------------------------------------------------------ *)
(* SpecStub: the user pool migrator on one pool, for every trigger      *)
(* configuration and every set of functions the target already holds    *)
(* ------------------------------------------------------------------ *)
\* most triggers of a pool
MaxTriggers == 2

StubNames == { << "f" >>, << "g" >> }
TriggerRefs ==
    { FunctionArn(n) : n \in StubNames }
      \cup { [ str |-> TRUE, s |-> << "arn", ":", "kms", ":", "key" >> ],
             [ str |-> TRUE, s |-> << "function", ":", "f" >> ],
             [ str |-> FALSE ] }
TriggerKeys == << "PreSignUp", "PostConfirmation", "CustomMessage" >>
LambdaConfigs ==
    UNION { { [ i \in 1..m |-> [ key |-> TriggerKeys[i], arn |-> refs[i] ] ] :
                refs \in [ 1..m -> TriggerRefs ] } : m \in 0..MaxTriggers }
Pools ==
    { [ Name |-> << "a", "b" >>, Policies |-> "policies" ] }
      \cup { [ Name |-> << "a", "b" >>, LambdaConfig |-> c ] :
               c \in LambdaConfigs }

InitStub ==
    \E p \in Pools, held \in SUBSET StubNames :
        InitWith("cognito",
                 << [ Name |-> p.Name, Id |-> << "i", "d" >>, UserPool |-> p,
                      Clients |-> << [ ClientId |-> "c1",
                                       ClientName |-> "web" ] >>,
                      UserPages |-> << << "u1" >> >> ] >>,
                 <<>>, [ EmptyTarget EXCEPT !.functions = held ])

SpecStub == InitStub /\ [][clone_cognito_user_pools]_vars

\* the reference is a string in which "function" is followed by ":"
HasMarker(ref) ==
    /\ ref.str
    /\ \E i \in 1..(Len(ref.s) - 1) :
         ref.s[i] = "function" /\ ref.s[i + 1] = ":"
\* the identifiers parsed from the references with the marker, in the order
\* of the configuration
RECURSIVE MarkedIdentifiers(_)
MarkedIdentifiers(lambda_config) ==
    IF lambda_config = <<>> THEN <<>>
    ELSE (IF HasMarker(Head(lambda_config).arn)
          THEN << SplitLast(Head(lambda_config).arn.s, FunctionSeparator) >>
          ELSE <<>>) \o MarkedIdentifiers(Tail(lambda_config))
IsExistenceCheck(c) == c.env = "target" /\ c.op = "get_function"
IsStubCreate(c) == c.env = "target" /\ c.op = "create_function"
CheckedIdentifiers ==
    LET cs == SelectSeq(calls, IsExistenceCheck)
    IN  [ i \in DOMAIN cs |-> cs[i].id ]
TriggersOf(pool) ==
    IF "LambdaConfig" \in DOMAIN pool.UserPool
    THEN pool.UserPool.LambdaConfig ELSE <<>>
StubbingEnded ==
    pc \in { "create_user_pool", "clients", "client", "users", "user" }

(* ------------------------------------------------------------------ *)
(* C5: the existence checks are made for the references that are        *)
(* strings with the marker "function:", in order and for no other       *)
(* reference; a create-function call is issued if and only if the call  *)
(* before it is the existence check of the same identifier and that     *)
(* check answers that no such function exists.                          *)
(* ------------------------------------------------------------------ *)
Thm_C5_StubOnlyMissing ==
    /\ \A k \in DOMAIN calls :
         IsStubCreate(calls[k]) =>
           /\ k > 1
           /\ IsExistenceCheck(calls[k - 1])
           /\ calls[k - 1].id = calls[k].id
           /\ calls[k - 1].data = "not-found"
    /\ \A k \in DOMAIN calls :
         (IsExistenceCheck(calls[k]) /\ calls[k].data = "not-found") =>
           IF k = Len(calls) THEN pc = "stub_create_function"
           ELSE IsStubCreate(calls[k + 1]) /\ calls[k + 1].id = calls[k].id
    /\ \A k \in DOMAIN calls :
         (IsExistenceCheck(calls[k]) /\ calls[k].data = "found") =>
           (k < Len(calls) => ~ IsStubCreate(calls[k + 1]))
    /\ LET expected == MarkedIdentifiers(TriggersOf(listing[1]))
       IN  /\ Len(CheckedIdentifiers) <= Len(expected)
           /\ CheckedIdentifiers
                = SubSeq(expected, 1, Len(CheckedIdentifiers))
           /\ StubbingEnded => CheckedIdentifiers = expected

\* the stubbing ended on a pool with a reference without the colon before
\* the marker, whose function is created, and a reference to a function the
\* target holds, which is not
Wit_C5_StubOnlyMissing ==
    /\ StubbingEnded
    /\ Len(TriggersOf(listing[1])) = 2
    /\ TriggersOf(listing[1])[1].arn = [ str |-> TRUE,
                                          s |-> << "function", ":", "f" >> ]
    /\ TriggersOf(listing[1])[2].arn = FunctionArn(<< "g" >>)
    /\ \E k \in DOMAIN calls :
         IsStubCreate(calls[k]) /\ calls[k].ok
           /\ calls[k].id = << "function", ":", "f" >>
    /\ \E k \in DOMAIN calls :
         IsExistenceCheck(calls[k]) /\ calls[k].id = << "g" >>
           /\ calls[k].data = "found"

(* ------------------------------------------------------------------ *)
(* main: the orchestrator (lines 677-718)                               *)
(*                                                                      *)
(* loc holds the arguments clone_all and selected_services (<<>> for    *)
(* None, << list >> for a list) and the futures of the executor. A      *)
(* future is [service, state, collected]: state is "pending" (queued in *)
(* the executor), "running" (a worker thread is in the migrator),       *)
(* "returned" or "raised"; collected says that as_completed yielded it  *)
(* and how future.result() ended. A migrator is seen here by how it     *)
(* ends only.                                                           *)
(* ------------------------------------------------------------------ *)
\* threads of ThreadPoolExecutor(): min(32, cpu_count + 4), 5 on one core
MaxWorkers == 5

\* the keys of the dict services, in the order they were inserted
services == << "s3", "ec2", "lambda", "sqs", "cognito", "rds", "dynamodb" >>
InServices(service) == \E i \in DOMAIN services : services[i] = service

Finished == { "returned", "raised" }

\* the worker threads that are inside a task, a raise leaving a worker busy
workers_in_use_after_raise(futures) ==
    Cardinality({ i \in DOMAIN futures :
                    futures[i].state \in { "running", "raised" } })

\* the worker threads that are inside a task
workers_in_use(futures) ==
    Cardinality({ i \in DOMAIN futures : futures[i].state = "running" })

\* start_localstack() returns once LocalStack answers; wait_for_localstack
\* catches what its probe raises and tries again
main_start_localstack ==
    /\ kind = "main" /\ pc = "start"
    /\ Step([ pc |-> "submit" ])

\* the loop that submits, ended by the first name that is not in services
main_submit_until_unknown ==
    /\ kind = "main" /\ pc = "submit"
    /\ IF ~ loc.clone_all /\ loc.selected_services = <<>>
       THEN Step([ pc |-> "exit", tmp |-> { "TypeError" } ])
       ELSE LET requested == IF loc.clone_all THEN services
                             ELSE loc.selected_services[1]
            IN  IF idx = Len(requested)
                THEN Step([ pc |-> "collect" ])
                ELSE LET service == requested[idx + 1]
                     IN  IF InServices(service)
                         THEN Step([ idx |-> idx + 1,
                                     loc |-> [ loc EXCEPT !.futures =
                                        Append(@, [ service |-> service,
                                                    state |-> "pending",
                                                    collected |-> "no" ]) ] ])
                         ELSE Step([ idx |-> Len(requested),
                                     reports |-> << Report(service,
                                                     "unknown-service") >> ])

\* the loop that submits (lines 693-701); iterating selected_services when
\* it is None raises TypeError, which leaves the with block
main_submit ==
    /\ kind = "main" /\ pc = "submit"
    /\ IF ~ loc.clone_all /\ loc.selected_services = <<>>
       THEN Step([ pc |-> "exit", tmp |-> { "TypeError" } ])
       ELSE LET requested == IF loc.clone_all THEN services
                             ELSE loc.selected_services[1]
            IN  IF idx = Len(requested)
                THEN Step([ pc |-> "collect" ])
                ELSE LET service == requested[idx + 1]
                     IN  IF InServices(service)
                         THEN Step([ idx |-> idx + 1,
                                     loc |-> [ loc EXCEPT !.futures =
                                        Append(@, [ service |-> service,
                                                    state |-> "pending",
                                                    collected |-> "no" ]) ] ])
                         ELSE Step([ idx |-> idx + 1,
                                     reports |-> << Report(service,
                                                     "unknown-service") >> ])

\* a worker thread takes the oldest queued work item
TaskStart(i) ==
    /\ kind = "main"
    /\ i \in DOMAIN loc.futures
    /\ loc.futures[i].state = "pending"
    /\ \A j \in 1..(i - 1) : loc.futures[j].state # "pending"
    /\ workers_in_use(loc.futures) < MaxWorkers
    /\ Step([ loc |-> [ loc EXCEPT !.futures[i].state = "running" ] ])

task_start == \E i \in DOMAIN loc.futures : TaskStart(i)

\* the migrator returns or raises; the executor keeps either in the future
TaskRun(i) ==
    /\ kind = "main"
    /\ i \in DOMAIN loc.futures
    /\ loc.futures[i].state = "running"
    /\ \E end \in Finished :
         Step([ loc |-> [ loc EXCEPT !.futures[i].state = end ] ])

task_run == \E i \in DOMAIN loc.futures : TaskRun(i)

\* for future in as_completed(futures): future.result(), whose exception
\* is logged and printed (lines 703-708)
main_as_completed ==
    /\ kind = "main" /\ pc = "collect"
    /\ IF \A i \in DOMAIN loc.futures : loc.futures[i].collected # "no"
       THEN Step([ pc |-> "exit" ])
       ELSE \E i \in DOMAIN loc.futures :
              /\ loc.futures[i].collected = "no"
              /\ loc.futures[i].state \in Finished
              /\ Step([ loc |-> [ loc EXCEPT !.futures[i].collected =
                                    IF loc.futures[i].state = "raised"
                                    THEN "error-logged" ELSE "result" ] ])

\* the end of the with block: executor.shutdown(wait=True), then the
\* handlers of lines 710-718 and the return
main_exit ==
    /\ kind = "main" /\ pc = "exit"
    /\ \A i \in DOMAIN loc.futures : loc.futures[i].state \in Finished
    /\ Step([ pc |-> "done", tmp |-> {},
              reports |-> IF tmp = {} THEN <<>>
                          ELSE << Report(<<>>, "error-occurred") >> ])

\* most names in selected_services
MaxServices == 2
ServiceNames == { "s3", "lambda", "rds", "nosuch" }
Selections ==
    { <<>> } \cup { << l >> : l \in UNION { [ 1..m -> ServiceNames ] :
                                              m \in 0..MaxServices } }
MainArguments ==
    { [ clone_all |-> TRUE, selected_services |-> l ] :
        l \in { <<>>, << << "nosuch" >> >> } }
      \cup { [ clone_all |-> FALSE, selected_services |-> l ] :
               l \in Selections }

InitMain ==
    \E a \in MainArguments :
        /\ kind = "main" /\ listing = <<>> /\ filter_name = <<>>
        /\ target = EmptyTarget /\ idx = 0 /\ pc = "start"
        /\ loc = [ clone_all |-> a.clone_all,
                   selected_services |-> a.selected_services,
                   futures |-> <<>> ]
        /\ tmp = {} /\ calls = <<>> /\ reports = <<>> /\ faults = 0
        /\ run = 1 /\ config = DefaultConfig

NextMain ==
    \/ main_start_localstack
    \/ main_submit
    \/ task_start
    \/ task_run
    \/ main_as_completed
    \/ main_exit

SpecMain == InitMain /\ [][NextMain]_vars

\* the names main is asked for
Requested ==
    IF loc.clone_all THEN services
    ELSE IF loc.selected_services = <<>> THEN <<>>
    ELSE loc.selected_services[1]
\* the names among them that are migrators, one entry per request
RECURSIVE Recognised(_)
Recognised(names) ==
    IF names = <<>> THEN <<>>
    ELSE (IF Head(names) \in { "s3", "ec2", "lambda", "sqs", "cognito",
                               "rds", "dynamodb" }
          THEN << Head(names) >> ELSE <<>>) \o Recognised(Tail(names))
Submitted == [ i \in DOMAIN loc.futures |-> loc.futures[i].service ]
Running == { i \in DOMAIN loc.futures : loc.futures[i].state = "running" }

(* ------------------------------------------------------------------ *)
(* C8: once main has gone through its requests there is one task per    *)
(* requested migrator, in the order of the requests; whatever tasks     *)
(* have raised, the oldest queued task can start as soon as fewer       *)
(* workers than the pool has are inside a task, every running task can  *)
(* end, and main can take a step until it has returned; main has        *)
(* returned only when every task has returned or raised.                *)
(* ------------------------------------------------------------------ *)
Thm_C8_TasksIndependent ==
    /\ pc \in { "collect", "exit", "done" } => Submitted = Recognised(Requested)
    /\ \A i \in DOMAIN loc.futures :
         /\ loc.futures[i].state = "running" => ENABLED TaskRun(i)
         /\ ( /\ loc.futures[i].state = "pending"
              /\ \A j \in 1..(i - 1) : loc.futures[j].state # "pending"
              /\ Cardinality(Running) < MaxWorkers ) => ENABLED TaskStart(i)
    /\ pc # "done" => ENABLED NextMain
    /\ pc = "done" =>
         \A i \in DOMAIN loc.futures :
           loc.futures[i].state \in { "returned", "raised" }

\* as many tasks have raised as the pool has workers while one is running
\* and one is still queued
Wit_C8_TasksIndependent ==
    /\ Cardinality({ i \in DOMAIN loc.futures :
                       loc.futures[i].state = "raised" }) >= MaxWorkers
    /\ \E i \in DOMAIN loc.futures : loc.futures[i].state = "running"
    /\ \E i \in DOMAIN loc.futures : loc.futures[i].state = "pending"

(* ------------------------------------------------------------------ *)
(* The guards: ensure_bucket_exists and the get_function of             *)
(* stub_trigger_lambdas                                                 *)
(* ------------------------------------------------------------------ *)
IsGuardCheck(c) ==
    c.env = "target" /\ c.op \in { "head_bucket", "get_function" }
GuardCreateOp(c) ==
    IF c.op = "head_bucket" THEN "create_bucket" ELSE "create_function"
\* call k + 1 is the create of the resource call k checked
CreateFollows(k) ==
    /\ k < Len(calls)
    /\ calls[k + 1].env = "target"
    /\ calls[k + 1].op = GuardCreateOp(calls[k])
    /\ calls[k + 1].id = calls[k].id
    /\ calls[k + 1].run = calls[k].run
\* the guard's create is the next thing the function does
CreatePending(k) ==
    k = Len(calls) /\ pc = "stub_create_function" /\ run = calls[k].run
\* the error left the guard: the function migrator ended with the exception,
\* the pool migrator printed it and returned, and no call of that run follows
Surfaced(k) ==
    /\ k < Len(calls) => calls[k + 1].run > calls[k].run
    /\ IF calls[k].op = "head_bucket" THEN pc = "raised"
       ELSE /\ run = calls[k].run => pc = "done"
            /\ \E r \in DOMAIN reports :
                 reports[r].run = calls[k].run
                   /\ reports[r].status = "cognito-error"

(* ------------------------------------------------------------------ *)
(* C11: after a guard's existence check that answers that the resource *)
(* exists, the next call is not a create of it; after one that answers *)
(* not-found, the next call is the create of it and the call after     *)
(* that is not a second one; after one that fails in any other way, no *)
(* call of the run follows and the error has left the guard to its     *)
(* caller.                                                             *)
(* ------------------------------------------------------------------ *)
Thm_C11_GuardOutcomes ==
    \A k \in DOMAIN calls :
        IsGuardCheck(calls[k]) =>
          IF ~ calls[k].ok
          THEN ~ CreateFollows(k) /\ Surfaced(k)
          ELSE IF calls[k].data \in { "200", "found" }
          THEN ~ CreateFollows(k)
          ELSE /\ CreateFollows(k) \/ CreatePending(k)
               /\ (k + 2 \in DOMAIN calls /\ CreateFollows(k)) =>
                    ~ ( /\ calls[k + 2].op = calls[k + 1].op
                        /\ calls[k + 2].id = calls[k + 1].id
                        /\ calls[k + 2].env = "target" )

\* two runs of the function migrator: in the first the bucket is
\* missing and created, in the second the check fails
Wit_C11_GuardOutcomes ==
    /\ kind = "lambda" /\ run = 2 /\ pc = "raised"
    /\ \E k \in DOMAIN calls :
         /\ calls[k].op = "head_bucket" /\ calls[k].ok /\ calls[k].run = 1
         /\ calls[k].data = "404" /\ CreateFollows(k)
    /\ calls[Len(calls)].op = "head_bucket" /\ ~ calls[Len(calls)].ok

\* the items of all the pages of a scan
RECURSIVE ItemsOfScan(_)
ItemsOfScan(pages) ==
    IF pages = <<>> THEN 0 ELSE Len(Head(pages)) + ItemsOfScan(Tail(pages))
FailedWrites ==
    { k \in DOMAIN calls : calls[k].op = "batch_write_item" /\ ~ calls[k].ok }

(* ------------------------------------------------------------------ *)
(* C12: a batch_write_item call that fails is reported, its batch is   *)
(* not sent a second time, and once the migrator has ended, the batch  *)
(* writes of the table have carried every item of the source scan: the *)
(* batches after the failed one and the remainder were still written.  *)
(* ------------------------------------------------------------------ *)
Cex_C12_LaterBatchesWritten ==
    \A k \in FailedWrites :
        /\ \E r \in DOMAIN reports :
             reports[r].id = calls[k].id /\ reports[r].status = "failed"
        /\ \A j \in DOMAIN calls :
             (j > k /\ calls[j].op = "batch_write_item")
               => calls[j].data # calls[k].data
        /\ pc = "done" =>
             ItemsCarried(calls, "batch_write_item", calls[k].id)
               = ItemsOfScan(listing[1].Pages)

(* ------------------------------------------------------------------ *)
(* C13: once the pool migrator has ended, a failed existence check or  *)
(* a failed stub create has been followed by the create_user_pool call *)
(* of the pool, and every reference with the marker has had its        *)
(* existence check.                                                    *)
(* ------------------------------------------------------------------ *)
Cex_C13_StubFailureIsolated ==
    pc = "done" =>
      \A k \in DOMAIN calls :
        ((IsExistenceCheck(calls[k]) \/ IsStubCreate(calls[k]))
           /\ ~ calls[k].ok)
        => /\ \E j \in DOMAIN calls :
                j > k /\ calls[j].op = "create_user_pool"
           /\ CheckedIdentifiers = MarkedIdentifiers(TriggersOf(listing[1]))

(* ------------------------------------------------------------------ *)
(* C14: when the processing of a database instance has ended (the loop *)
(* is at its head or the migrator has ended), no dump file of an       *)
(* instance the dump command was run for exists.                       *)
(* ------------------------------------------------------------------ *)
Cex_C14_DumpFileRemoved ==
    (kind = "rds" /\ pc \in { "loop", "done" }) =>
      \A k \in DOMAIN calls :
        calls[k].op = "mysqldump" => dump_file(calls[k].id) \notin tmp

(* ------------------------------------------------------------------ *)
(* The script (lines 721-764): the identity is verified, the arguments *)
(* are read, main is called                                            *)
(* ------------------------------------------------------------------ *)
StsErrors == { "NoCredentialsError", "PartialCredentialsError", "Exception" }

\* what the handlers of lines 756-764 print
script_except(error) ==
    CASE error = "NoCredentialsError" -> "credentials-not-found"
      [] error = "PartialCredentialsError" -> "incomplete-credentials"
      [] OTHER -> "error-occurred"

\* the verification whose error is not looked at
script_get_caller_identity_unchecked ==
    /\ kind = "main" /\ pc = "sts"
    /\ \E r \in { "ok" } \cup StsErrors :
         Step([ pc |-> "args",
                calls |-> << [ Call("source", "get_caller_identity", <<>>, r)
                                 EXCEPT !.ok = (r = "ok") ] >> ])

\* boto3.client('sts').get_caller_identity(): an exception ends the script
\* in one of its handlers
script_get_caller_identity ==
    /\ kind = "main" /\ pc = "sts"
    /\ \E r \in { "ok" } \cup StsErrors :
         LET verified == Call("source", "get_caller_identity", <<>>, r)
         IN  IF r = "ok"
             THEN Step([ pc |-> "args", calls |-> << verified >> ])
             ELSE Step([ pc |-> "exited", fault |-> TRUE,
                         calls |-> << verified >>,
                         reports |-> << Report(<<>>, script_except(r)) >> ])

\* the arguments main can be called with: --all and --services from the
\* command line, or the answers to the menu
ScriptArguments ==
    { [ clone_all |-> TRUE, selected_services |-> <<>> ] }
      \cup { [ clone_all |-> FALSE, selected_services |-> l ] :
               l \in Selections }

\* lines 725-754: the arguments, the menu and the filter, then main(...);
\* a choice that is neither 1 nor 2 ends the script with exit(1)
script_arguments ==
    /\ kind = "main" /\ pc = "args"
    /\ \/ \E a \in ScriptArguments :
            Step([ pc |-> "start",
                   loc |-> [ clone_all |-> a.clone_all,
                             selected_services |-> a.selected_services,
                             futures |-> <<>> ] ])
       \/ Step([ pc |-> "exited",
                 reports |-> << Report(<<>>, "invalid-choice") >> ])

InitScript ==
    /\ kind = "main" /\ listing = <<>> /\ filter_name = <<>>
    /\ target = EmptyTarget /\ idx = 0 /\ pc = "sts"
    /\ loc = [ clone_all |-> FALSE, selected_services |-> <<>>,
               futures |-> <<>> ]
    /\ tmp = {} /\ calls = <<>> /\ reports = <<>> /\ faults = 0
    /\ run = 1 /\ config = DefaultConfig

NextScript ==
    \/ script_get_caller_identity
    \/ script_arguments
    \/ NextMain

SpecScript == InitScript /\ [][NextScript]_vars

IdentityFailed ==
    \E k \in DOMAIN calls :
        calls[k].op = "get_caller_identity" /\ ~ calls[k].ok

(* ------------------------------------------------------------------ *)
(* C15: once the verification of the identity has failed, the script   *)
(* is in its handler and stays there: main is not entered, the         *)
(* executor holds no task, and the calls made are that verification    *)
(* alone.                                                              *)
(* ------------------------------------------------------------------ *)
Thm_C15_NoTaskWithoutIdentity ==
    IdentityFailed =>
      /\ pc = "exited"
      /\ loc.futures = <<>>
      /\ Len(calls) = 1
      /\ ~ ENABLED NextScript

\* the verification failed for missing credentials and the script printed so
Wit_C15_NoTaskWithoutIdentity ==
    /\ IdentityFailed
    /\ calls[1].data = "NoCredentialsError"
    /\ \E r \in DOMAIN reports : reports[r].status = "credentials-not-found"

\* the names of a list that are no migrator, one entry per request
RECURSIVE Unrecognised(_)
Unrecognised(names) ==
    IF names = <<>> THEN <<>>
    ELSE (IF Head(names) \in { "s3", "ec2", "lambda", "sqs", "cognito",
                               "rds", "dynamodb" }
          THEN <<>> ELSE << Head(names) >>) \o Unrecognised(Tail(names))
Warned ==
    LET ws == SelectSeq(reports, LAMBDA r : r.status = "unknown-service")
    IN  [ i \in DOMAIN ws |-> ws[i].id ]
ExplicitList == ~ loc.clone_all /\ loc.selected_services # <<>>

(* ------------------------------------------------------------------ *)
(* C16: when main is given a list of names and has gone through it,    *)
(* the warnings name the entries of the list that are no migrator, in  *)
(* order, the tasks are those of the other entries, in order, and none *)
(* is for a warned name; when main has returned every one of these     *)
(* tasks has run to its end.                                           *)
(* ------------------------------------------------------------------ *)
Thm_C16_UnknownKindSkipped ==
    (ExplicitList /\ pc \in { "collect", "exit", "done" }) =>
      /\ Warned = Unrecognised(loc.selected_services[1])
      /\ Submitted = Recognised(loc.selected_services[1])
      /\ \A i \in DOMAIN Submitted, j \in DOMAIN Warned :
           Submitted[i] # Warned[j]
      /\ pc = "done" =>
           \A i \in DOMAIN loc.futures : loc.futures[i].state \in Finished

\* main has returned from a list whose first name is unknown and whose
\* second is a migrator, which ran
Wit_C16_UnknownKindSkipped ==
    /\ ExplicitList /\ pc = "done"
    /\ loc.selected_services[1] = << "nosuch", "s3" >>
    /\ Warned = << "nosuch" >>
    /\ Len(loc.futures) = 1 /\ loc.futures[1].service = "s3"
    /\ loc.futures[1].state = "returned"

(* ------------------------------------------------------------------ *)
(* SpecRds: the database migrator on one instance of every description *)
(* and with every setting of the source password                       *)
(* ------------------------------------------------------------------ *)
EngineOptions ==
    { EmptyDict } \cup { [ Engine |-> e ] :
                           e \in { "MySQL", "aurora-mysql", "Postgres" } }
ClassOptions == { EmptyDict, [ DBInstanceClass |-> "db.t3.micro" ] }
MasterOptions ==
    { EmptyDict } \cup { [ MasterUsername |-> u ] : u \in { "root", "dba" } }
EndpointOptions ==
    { EmptyDict, [ Endpoint |-> [ Address |-> "host", Port |-> 3306 ] ],
      [ Endpoint |-> [ Address |-> "host" ] ] }
DBNameOptions == { EmptyDict, [ DBName |-> "app" ] }
DbInstances ==
    { [ Engine |-> "MySQL" ] }
      \cup { Merge(Merge(Merge(Merge(Merge(
                 [ DBInstanceIdentifier |-> << "a", "b" >> ], e), c), m), p), n) :
               e \in EngineOptions, c \in ClassOptions, m \in MasterOptions,
               p \in EndpointOptions, n \in DBNameOptions }
Configs ==
    { [ AWS_RDS_MASTER_PASSWORD |-> w ] : w \in { <<>>, << "p", "w" >> } }

InitRds ==
    \E d \in DbInstances, c \in Configs :
        /\ kind = "rds" /\ listing = << d >> /\ filter_name = <<>>
        /\ target = EmptyTarget /\ idx = 0 /\ pc = "start" /\ loc = NoLoc
        /\ tmp = {} /\ calls = <<>> /\ reports = <<>> /\ faults = 0
        /\ run = 1 /\ config = c

SpecRds == InitRds /\ [][clone_rds_instances]_vars

\* the description without what it says of the master user
WithoutMaster(db_instance) ==
    [ f \in DOMAIN db_instance \ { "MasterUsername" } |-> db_instance[f] ]
IsCreateDb(c) == c.env = "target" /\ c.op = "create-db-instance"

(* ------------------------------------------------------------------ *)
(* C17: every create-db-instance request carries the local user and    *)
(* the local password, and is the request of the same description      *)
(* without its master username: two descriptions that differ in the    *)
(* master user only, under any source password, give the same request. *)
(* ------------------------------------------------------------------ *)
Thm_C17_LocalCredentials ==
    \A k \in DOMAIN calls :
        IsCreateDb(calls[k]) =>
          /\ calls[k].data.MasterUsername = "master"
          /\ calls[k].data.MasterUserPassword = "secret99"
          /\ \E d \in DbInstances, c \in Configs :
               /\ WithoutMaster(d) = WithoutMaster(listing[1])
               /\ d # listing[1] /\ c # config
               /\ calls[k].data = create_db_command(d)
          /\ calls[k].data
               = [ DBInstanceIdentifier |-> listing[1].DBInstanceIdentifier,
                   DBInstanceClass |-> calls[k].data.DBInstanceClass,
                   Engine |-> calls[k].data.Engine,
                   MasterUsername |-> "master",
                   MasterUserPassword |-> "secret99" ]

\* an instance whose master user is root on the source, the source password
\* set, is created in the target
Wit_C17_LocalCredentials ==
    \E k \in DOMAIN calls :
        /\ IsCreateDb(calls[k]) /\ calls[k].ok
        /\ "MasterUsername" \in DOMAIN listing[1]
        /\ listing[1].MasterUsername = "root"
        /\ config.AWS_RDS_MASTER_PASSWORD = << "p", "w" >>

\* the calls that create or write, and the calls that read
MutatingOps ==
    { "create-bucket", "create-queue", "create_bucket", "upload_file",
      "create_function", "create-db-instance", "mysql-import",
      "create_user_pool", "create_user_pool_client", "admin_create_user",
      "create_table", "batch_write_item" }
ReadingOps ==
    { "list-buckets", "list-queues", "list-functions", "get_function",
      "download", "describe-db-instances", "mysqldump", "list_user_pools",
      "describe_user_pool", "list_user_pool_clients",
      "describe_user_pool_client", "list_users", "list-tables",
      "describe_table", "scan", "head_bucket", "wait_table_exists" }

(* ------------------------------------------------------------------ *)
(* C18: every call is a reading call or a mutating call; every call to *)
(* the source is a reading call, and every mutating call is made to    *)
(* the target (the restore into the local MySQL counted with it).      *)
(* ------------------------------------------------------------------ *)
Thm_C18_SourceReadOnly ==
    \A k \in DOMAIN calls :
        /\ calls[k].op \in MutatingOps \cup ReadingOps
        /\ calls[k].env \in { "source", "target" }
        /\ calls[k].env = "source" => calls[k].op \in ReadingOps
        /\ calls[k].op \in MutatingOps => calls[k].env = "target"

\* a table was scanned on the source and its items written to the target
Wit_C18_SourceReadOnly ==
    /\ \E k \in DOMAIN calls :
         calls[k].op = "scan" /\ calls[k].env = "source" /\ calls[k].ok
    /\ \E k \in DOMAIN calls :
         calls[k].op = "batch_write_item" /\ calls[k].env = "target"
           /\ calls[k].ok

\* names for which a message names the instance
ReportedNames ==
    { n \in NameSet : \E r \in DOMAIN reports : reports[r].id = n }

(* ------------------------------------------------------------------ *)
(* C19: when a migrator whose listing succeeded has ended, every       *)
(* listed instance whose name the filter keeps is named by a message   *)
(* of the migrator.                                                    *)
(* ------------------------------------------------------------------ *)
Cex_C19_EveryInstanceReported ==
    (pc \in { "done", "raised" } /\ ListSucceeded)
        => KeptAmong(Len(listing)) \subseteq ReportedNames

\* the functions a trigger map refers to
ReferencedFunctions(lambda_config) ==
    { MarkedIdentifiers(lambda_config)[i] :
        i \in DOMAIN MarkedIdentifiers(lambda_config) }

(* ------------------------------------------------------------------ *)
(* C20: when the call just made is a create_user_pool that carries a   *)
(* trigger map, every function the map refers to is in the target.     *)
(* ------------------------------------------------------------------ *)
Cex_C20_TriggersExistAtCreate ==
    ( /\ calls # <<>>
      /\ calls[Len(calls)].op = "create_user_pool"
      /\ "LambdaConfig" \in DOMAIN calls[Len(calls)].data )
    => ReferencedFunctions(calls[Len(calls)].data.LambdaConfig)
         \subseteq target.functions

(* ------------------------------------------------------------------ *)
(* C21: every batch_write_item call for a table comes, in its run,     *)
(* after a wait for that table on the target that completed.           *)
(* ------------------------------------------------------------------ *)
Cex_C21_WaitBeforeWrite ==
    \A k \in DOMAIN calls :
        calls[k].op = "batch_write_item" =>
          \E j \in 1..(k - 1) :
            /\ calls[j].op = "wait_table_exists" /\ calls[j].ok
            /\ calls[j].id = calls[k].id /\ calls[j].run = calls[k].run

\* the item lists of the calls op, one after the other in call order
RECURSIVE Carried(_, _)
Carried(cs, op) ==
    IF cs = <<>> THEN <<>>
    ELSE (IF Head(cs).op = op THEN Head(cs).data ELSE <<>>)
           \o Carried(Tail(cs), op)
IsBatchWrite(c) == c.op = "batch_write_item"
BatchWrites == SelectSeq(calls, IsBatchWrite)
IsPrefix(s, t) == Len(s) <= Len(t) /\ s = SubSeq(t, 1, Len(s))

(* ------------------------------------------------------------------ *)
(* C22: the items of the batch_write_item calls, in call order, are at *)
(* every moment the first items the scan returned, in scan order and   *)
(* each once, and are all of them when the copy of the table has run   *)
(* to its end; no batch is empty and every batch but the last carries  *)
(* exactly 25 items.                                                   *)
(* ------------------------------------------------------------------ *)
Thm_C22_BatchesAreTheScan ==
    /\ IsPrefix(Carried(calls, "batch_write_item"), Carried(calls, "scan"))
    /\ (\E r \in DOMAIN reports : reports[r].status = "cloned") =>
         /\ Carried(calls, "batch_write_item") = Carried(calls, "scan")
         /\ Carried(calls, "scan")
              = Carried([ i \in DOMAIN listing[1].Pages |->
                            [ op |-> "scan", data |-> listing[1].Pages[i] ] ],
                        "scan")
    /\ \A i \in DOMAIN BatchWrites :
         /\ BatchWrites[i].data # <<>>
         /\ i < Len(BatchWrites) => Len(BatchWrites[i].data) = 25

\* a copy that ended after three batches, the second made of the last item
\* of the first page and the first 24 of the second
Wit_C22_BatchesAreTheScan ==
    /\ \E r \in DOMAIN reports : reports[r].status = "cloned"
    /\ Len(listing[1].Pages) = 2
    /\ Len(listing[1].Pages[1]) = 26 /\ Len(listing[1].Pages[2]) = 25
    /\ Len(BatchWrites) = 3
    /\ BatchWrites[2].data[1] = listing[1].Pages[1][26]
    /\ BatchWrites[2].data[2] = listing[1].Pages[2][1]
    /\ Len(BatchWrites[3].data) = 1

\* the description names an engine that is neither MySQL nor Aurora MySQL
NotMySQL(db_instance) ==
    /\ "Engine" \in DOMAIN db_instance
    /\ db_instance.Engine \notin { "MySQL", "mysql", "aurora-mysql" }
HasIdentifier(db_instance) == "DBInstanceIdentifier" \in DOMAIN db_instance

(* ------------------------------------------------------------------ *)
(* C23: for an instance whose engine is not of the MySQL family, the   *)
(* migrator is never at the question about the data copy, at the dump  *)
(* or at the restore, and makes no dump and no restore call; once it   *)
(* has gone past the instance the create-db-instance call was made     *)
(* with that engine, and when that call succeeded the instance is in   *)
(* the target and the skip of the data import is reported.             *)
(* ------------------------------------------------------------------ *)
Thm_C23_NoCopyForOtherEngines ==
    (NotMySQL(listing[1]) /\ HasIdentifier(listing[1])) =>
      /\ pc \notin { "prompt", "dump", "import" }
      /\ \A k \in DOMAIN calls :
           calls[k].op \notin { "mysqldump", "mysql-import" }
      /\ \A r \in DOMAIN reports :
           reports[r].status \notin { "data-skipped", "imported",
                                      "dump-failed", "import-failed" }
      /\ (idx = 1 /\ pc \in { "loop", "done" }) =>
           \E k \in DOMAIN calls :
             /\ IsCreateDb(calls[k])
             /\ calls[k].id = listing[1].DBInstanceIdentifier
             /\ calls[k].data.Engine = "postgres"
             /\ calls[k].ok =>
                  /\ listing[1].DBInstanceIdentifier \in target.dbs
                  /\ \E r \in DOMAIN reports :
                       /\ reports[r].id = listing[1].DBInstanceIdentifier
                       /\ reports[r].status = "data-skipped-engine"

\* a Postgres instance with an endpoint and a database name was created and
\* the migrator ended
Wit_C23_NoCopyForOtherEngines ==
    /\ NotMySQL(listing[1]) /\ HasIdentifier(listing[1])
    /\ "Endpoint" \in DOMAIN listing[1] /\ "DBName" \in DOMAIN listing[1]
    /\ config.AWS_RDS_MASTER_PASSWORD # <<>>
    /\ pc = "done"
    /\ \E k \in DOMAIN calls : IsCreateDb(calls[k]) /\ calls[k].ok

(* ------------------------------------------------------------------ *)
(* SpecLive: every migrator and the orchestrator, each step taken once *)
(* it can be: every call returns, with an answer or an error, and the  *)
(* threads of the executor keep running                                *)
(* ------------------------------------------------------------------ *)
UserPageLists ==
    { << <<>> >>, << << "u1" >> >>, << << "u1" >>, << "u2" >> >>,
      << << "u1" >>, <<>> >> }

InitUsers ==
    \E pages \in UserPageLists :
        InitWith("cognito",
                 << [ Name |-> << "a", "b" >>, Id |-> << "i", "d" >>,
                      UserPool |-> [ Name |-> << "a", "b" >> ],
                      Clients |-> <<>>, UserPages |-> pages ] >>,
                 <<>>, EmptyTarget)

\* main as the script calls it
InitMainCalled ==
    \E a \in ScriptArguments :
        /\ kind = "main" /\ listing = <<>> /\ filter_name = <<>>
        /\ target = EmptyTarget /\ idx = 0 /\ pc = "start"
        /\ loc = [ clone_all |-> a.clone_all,
                   selected_services |-> a.selected_services,
                   futures |-> <<>> ]
        /\ tmp = {} /\ calls = <<>> /\ reports = <<>> /\ faults = 0
        /\ run = 1 /\ config = DefaultConfig

InitLive == Init \/ InitUsers \/ InitMainCalled

NextLive == Next \/ (kind = "main" /\ NextMain)

SpecLive == InitLive /\ [][NextLive]_vars /\ WF_vars(NextLive)

Ended ==
    /\ pc \in { "done", "raised" }
    /\ kind = "main" =>
         \A i \in DOMAIN loc.futures :
           loc.futures[i].state \in { "returned", "raised" }

AlreadyExists ==
    \E r \in DOMAIN reports : reports[r].status = "already-exists"
\* a scan or a batch write of the run was failed by the environment
CopyFailed ==
    \E k \in DOMAIN calls :
        calls[k].op \in { "scan", "batch_write_item" } /\ ~ calls[k].ok
\* every item of every page of the source table, in scan order
RECURSIVE AllItems(_)
AllItems(pages) ==
    IF pages = <<>> THEN <<>> ELSE Head(pages) \o AllItems(Tail(pages))

(* ------------------------------------------------------------------ *)
(* C25: when create_table answers that the table exists already, the   *)
(* table is not created and not waited for, the target keeps the table *)
(* it held, and the copy runs all the same: the migrator is in the     *)
(* scan of the table, or a call of the copy has failed, or the copy has *)
(* ended with every page of the source scan read and every item of it  *)
(* carried by the batch writes to that table, in scan order.           *)
(* ------------------------------------------------------------------ *)
Thm_C25_ExistingTableCopied ==
    AlreadyExists =>
      /\ target.tables = { listing[1].TableName }
      /\ \A k \in DOMAIN calls : calls[k].op # "wait_table_exists"
      /\ \/ pc \in { "scan", "items", "remainder" }
         \/ CopyFailed
         \/ /\ \E r \in DOMAIN reports : reports[r].status = "cloned"
            /\ Carried(calls, "scan") = AllItems(listing[1].Pages)
            /\ Carried(calls, "batch_write_item") = AllItems(listing[1].Pages)
            /\ \A k \in DOMAIN calls :
                 calls[k].op = "batch_write_item" =>
                   /\ calls[k].env = "target"
                   /\ calls[k].id = listing[1].TableName

\* the table existed, and its 26 items on two pages were written in a batch
\* of 25 and a remainder of one
Wit_C25_ExistingTableCopied ==
    /\ AlreadyExists /\ pc = "done" /\ ~ CopyFailed
    /\ Len(listing[1].Pages) = 2
    /\ Len(listing[1].Pages[1]) = 1 /\ Len(listing[1].Pages[2]) = 25
    /\ Len(BatchWrites) = 2
    /\ Len(BatchWrites[1].data) = 25 /\ Len(BatchWrites[2].data) = 1


\* the function migrator is at a function whose code file it has written
CodeWritten == kind = "lambda" /\ pc \in { "upload", "create_function" }
\* the last call the migrator made
LastCall == calls[Len(calls)]

(* ------------------------------------------------------------------ *)
(* C26: in the function migrator a code file exists only between its   *)
(* write and the end of the upload and create of its function, and is  *)
(* then the file of that function alone: after a failed upload (which  *)
(* no handler catches), a failed create and a successful create, as    *)
(* before the write, no code file exists.                              *)
(* ------------------------------------------------------------------ *)
Thm_C26_CodeFileRemoved ==
    kind = "lambda" =>
      IF CodeWritten
      THEN tmp = { local_code_path(listing[idx].Function.FunctionName) }
      ELSE tmp = {}

\* the function migrator has left a second function by the failed upload
\* that no handler catches, after the create of a first function succeeded
Wit_C26_CodeFileRemoved ==
    /\ kind = "lambda" /\ pc = "raised" /\ idx = 2 /\ tmp = {}
    /\ loc.local_code_path # <<>>
    /\ LastCall.op = "upload_file" /\ ~ LastCall.ok
    /\ \E r \in DOMAIN reports : reports[r].status = "created"
    /\ \E k \in DOMAIN calls :
         /\ calls[k].op = "download"
         /\ calls[k].id = listing[1].Function.FunctionName


\* the calls op made before call k, and the last of them
CallsBefore(op, k) == { j \in 1..(k - 1) : calls[j].op = op }
LastBefore(op, k) ==
    CHOOSE j \in CallsBefore(op, k) : \A i \in CallsBefore(op, k) : i <= j
\* the identifier the target returned to the create_user_pool call j: the
\* target numbers its pools in the order of their creation
ReturnedId(j) ==
    Cardinality({ i \in 1..j : calls[i].op = "create_user_pool"
                               /\ calls[i].ok })
\* the identifier of the source pool named name
SourcePoolId(name) ==
    listing[CHOOSE i \in DOMAIN listing : listing[i].Name = name].Id
\* call k creates a client or a user in a pool of the target
IsPoolContent(k) ==
    calls[k].op \in { "create_user_pool_client", "admin_create_user" }
\* the source call that lists what call k copies
ListingOf(k) ==
    IF calls[k].op = "admin_create_user" THEN "list_users"
    ELSE "list_user_pool_clients"
\* call k is a call of the copy of the clients that failed
ClientCopyFailed(k) ==
    /\ calls[k].op \in { "list_user_pool_clients",
                         "describe_user_pool_client",
                         "create_user_pool_client" }
    /\ ~ calls[k].ok

(* ------------------------------------------------------------------ *)
(* C27: every client and every user the pool migrator creates in the   *)
(* target follows a create_user_pool call of the same run that         *)
(* succeeded, with no other create_user_pool call in between, is       *)
(* created under the identifier that call returned, which is the       *)
(* identifier of a pool the target holds under the name of the source  *)
(* pool, and copies what was listed from that source pool; after a     *)
(* create_user_pool call that failed the migrator makes no call for    *)
(* that pool and goes on to the next pool of the listing; and after a  *)
(* failed call of the copy of the clients the users of the same pool   *)
(* are still listed.                                                   *)
(* ------------------------------------------------------------------ *)
Thm_C27_PoolContentUnderCreatedPool ==
    kind = "cognito" =>
      /\ \A k \in DOMAIN calls :
           IsPoolContent(k) =>
             /\ CallsBefore("create_user_pool", k) # {}
             /\ LET j == LastBefore("create_user_pool", k)
                IN  /\ calls[j].ok
                    /\ calls[j].run = calls[k].run
                    /\ calls[k].env = "target"
                    /\ calls[k].data.UserPoolId = ReturnedId(j)
                    /\ [ Id |-> ReturnedId(j), Name |-> calls[j].id ]
                         \in target.pools
                    /\ \E i \in (j + 1)..(k - 1) :
                         /\ calls[i].op = ListingOf(k)
                         /\ calls[i].id = SourcePoolId(calls[j].id)
      /\ \A e \in target.clients \cup target.users :
           \E p \in target.pools : p.Id = e[1]
      /\ \A j \in DOMAIN calls :
           (calls[j].op = "create_user_pool" /\ ~ calls[j].ok) =>
             IF j = Len(calls)
             THEN \/ pc = "loop"
                  \/ pc = "describe" /\ listing[idx].Name # calls[j].id
                  \/ pc = "done" /\ idx = Len(listing)
             ELSE /\ calls[j + 1].op = "describe_user_pool"
                  /\ calls[j + 1].id # SourcePoolId(calls[j].id)
      /\ \A j \in DOMAIN calls :
           ClientCopyFailed(j) =>
             LET l == LastBefore("list_user_pool_clients", j + 1)
             IN  \/ /\ pc \in { "client", "users" }
                    /\ listing[idx].Id = calls[l].id
                 \/ \E k \in (j + 1)..Len(calls) :
                      /\ calls[k].op = "list_users"
                      /\ calls[k].id = calls[l].id

\* the create of the first pool failed, and the client and the user of the
\* second pool were created under the identifier its create returned
Wit_C27_PoolContentUnderCreatedPool ==
    /\ kind = "cognito" /\ pc = "done" /\ Len(listing) = 2
    /\ \E j \in DOMAIN calls :
         /\ calls[j].op = "create_user_pool" /\ ~ calls[j].ok
         /\ calls[j].id = listing[1].Name
    /\ target.pools = { [ Id |-> 1, Name |-> listing[2].Name ] }
    /\ target.clients = { << 1, "web" >> }
    /\ target.users = { << 1, "u1" >> }

====
